---- MODULE Spec2Model ----
(***************************************************************************)
(* Clause segmentation and classification of contract text                 *)
(* (src/src/parser.ts: extractClauses, extractClausesRegex,                *)
(* detectClauseType).                                                      *)
(*                                                                         *)
(* A text is a sequence of one-character strings.  Offsets are those of    *)
(* the source (0-based): At(t, i) is t.charAt(i).  The regular expressions *)
(* of the source are written out as matchers over such sequences, with the *)
(* greedy / backtracking choice each one makes.                            *)
(***************************************************************************)
EXTENDS Integers, Sequences, FiniteSets, TLC

\* ---------------------------------------------------------------- bounds
\* Number of catalog lines a document is made of, at most.
MaxLines == 3
\* Number of catalog lines in front of the long filler line, at most.
MaxLongLines == 1
\* Length of the long filler line, chosen over the 2000-character limit.
FillerLen == 2001
\* The calls of a run of calls, and the lines of each of their documents.
MaxCalls == 3
MaxCallLines == 2
\* Phrases in a parent context handed to detectClauseType, at most.
MaxContextPhrases == 2
\* Characters after the word of a decimal heading, at most.
MaxHeadingTail == 5
\* Lines of a document whose section labels repeat, at most.
MaxRepeatLines == 4
\* Issues handed to analyzeIssues, and analyses in an answer of the model,
\* at most.
MaxIssues == 2
MaxAnalyses == 2
\* Clauses handed to detectIssues, and issues in an answer of the model,
\* at most.
MaxDetectorClauses == 2
MaxDetected == 2
\* Clauses handed to groupClausesByType, at most.
MaxGroupClauses == 3

\* ------------------------------------------------------ program constants
\* clauseText.substring(0, 2000)
MaxClauseText == 2000
\* clauseText.length > 10
NoiseLen == 10
\* header.length < 15 (capital-letter headers)
MinCapitalHeader == 15
\* hierarchy levels of the matcher classes
TopLevelLevel == 0
LetterLevel == 3
RomanLevel == 4
NumberLevel == 3
CapitalRomanLevel == 2
CapitalLetterLevel == 2

\* ------------------------------------------------------------ characters
NL == "\n"
\* What At gives beyond the end of the text; no character equals it.
EOF == ""
UpperSeq == <<"A", "B", "C", "D", "E", "F", "G", "H", "I", "J", "K", "L", "M", "N", "O", "P", "Q", "R", "S", "T", "U", "V", "W", "X", "Y", "Z">>
LowerSeq == <<"a", "b", "c", "d", "e", "f", "g", "h", "i", "j", "k", "l", "m", "n", "o", "p", "q", "r", "s", "t", "u", "v", "w", "x", "y", "z">>
UpperChars == {UpperSeq[n] : n \in 1..26}
LowerChars == {LowerSeq[n] : n \in 1..26}
DigitChars == {"0", "1", "2", "3", "4", "5", "6", "7", "8", "9"}
\* \s, over the characters the documents use
WsChars == {" ", "\t", "\n"}
\* [IVXivx] under the i flag
RomanChars == {"I", "V", "X", "i", "v", "x"}
\* [.-]
LeaderChars == {".", "-"}

\* JavaScript's undefined, for an optional string: no text equals it.
Undefined == <<"undefined">>

Max(S) == CHOOSE x \in S : \A y \in S : y <= x
Min(S) == CHOOSE x \in S : \A y \in S : x <= y

\* ------------------------------------------------------- string helpers
At(t, n) == IF n >= 0 /\ n < Len(t) THEN t[n + 1] ELSE EOF

\* t.substring(a, b), for 0 <= a and a <= b
Substring(t, a, b) == IF a >= b THEN <<>> ELSE SubSeq(t, a + 1, IF b > Len(t) THEN Len(t) ELSE b)

\* c.toLowerCase()
LowerChar(c) == IF c \in UpperChars
                THEN LowerSeq[CHOOSE n \in 1..26 : UpperSeq[n] = c]
                ELSE c
\* s.toLowerCase()
ToLowerCase(s) == [n \in 1..Len(s) |-> LowerChar(s[n])]

\* s.trim()
Trim(s) ==
  IF \A n \in 1..Len(s) : s[n] \in WsChars THEN <<>>
  ELSE LET a == CHOOSE n \in 1..Len(s) :
                  /\ s[n] \notin WsChars
                  /\ \A m \in 1..(n - 1) : s[m] \in WsChars
           b == CHOOSE n \in 1..Len(s) :
                  /\ s[n] \notin WsChars
                  /\ \A m \in (n + 1)..Len(s) : s[m] \in WsChars
       IN SubSeq(s, a, b)

\* s.indexOf(kw, from) >= 0 at exactly offset n
StartsAt(s, n, kw) == \A m \in 1..Len(kw) : At(s, n + m - 1) = kw[m]
\* the same under the i flag
StartsAtCI(s, n, kw) == \A m \in 1..Len(kw) : LowerChar(At(s, n + m - 1)) = LowerChar(kw[m])
\* s.includes(kw)
Includes(s, kw) == \E n \in 0..(Len(s) - Len(kw)) : StartsAt(s, n, kw)

\* The offset where a greedy \s* starting at q stops.
SkipWs(t, q) ==
  CHOOSE e \in q..Len(t) :
    /\ \A n \in q..(e - 1) : At(t, n) \in WsChars
    /\ At(t, e) \notin WsChars
\* The offset where a greedy [^\n]* starting at h stops: the next line
\* break, or the end of the text.
LineEnd(t, h) ==
  CHOOSE e \in h..Len(t) :
    /\ At(t, e) \in {NL, EOF}
    /\ \A n \in h..(e - 1) : At(t, n) # NL
\* The offset where a greedy run of characters of class C starting at q stops.
RunEnd(t, q, C) ==
  CHOOSE e \in q..Len(t) :
    /\ \A n \in q..(e - 1) : At(t, n) \in C
    /\ At(t, e) \notin C

\* \s+([^\n]+) from offset q: the offset of the header, or -1.  \s+ takes
\* the whole whitespace run; when the text ends there, it gives characters
\* back until the header can start on a character that is not a line break.
HeaderStart(t, q) ==
  LET r == SkipWs(t, q)
      HS == {h \in (q + 1)..r : h < Len(t) /\ At(t, h) # NL}
  IN IF HS = {} THEN -1 ELSE Max(HS)
\* \s+([^\n]+?)(?=\n) from offset q: as HeaderStart, and a line break must
\* follow the header.
LazyHeaderStart(t, q) ==
  LET r == SkipWs(t, q)
      HS == {h \in (q + 1)..r : h < Len(t) /\ At(t, h) # NL /\ LineEnd(t, h) < Len(t)}
  IN IF HS = {} THEN -1 ELSE Max(HS)

\* A regular expression's match: index, the offset after it (lastIndex),
\* and the two captured groups.
NoMatch == [ok |-> FALSE, index |-> -1, end |-> -1, g1 |-> <<>>, g2 |-> <<>>]
Found(p, e, a, b) == [ok |-> TRUE, index |-> p, end |-> e, g1 |-> a, g2 |-> b]

\* ------------------------------------------------------------- matchers
\* /\n((?:CLAUSE|ARTICLE|SCHEDULE|APPENDIX|PART)\s+(?:[IVXivx]+|\d+|[A-Za-z]))\s*[:\n–-]\s*([^\n]*)/gi
\* tried at offset p.  The label is the run of Roman letters, else the run
\* of digits, else one letter.  The delimiter is the ':' or '-' after the
\* whitespace that follows the label, else the last line break of that
\* whitespace.  (The documents have no en dash.)
TopLevelKeywords == <<<<"C", "L", "A", "U", "S", "E">>, <<"A", "R", "T", "I", "C", "L", "E">>, <<"S", "C", "H", "E", "D", "U", "L", "E">>, <<"A", "P", "P", "E", "N", "D", "I", "X">>, <<"P", "A", "R", "T">>>>
topLevelPattern(t, p) ==
  IF At(t, p) # NL \/ \A n \in 1..5 : ~StartsAtCI(t, p + 1, TopLevelKeywords[n])
  THEN NoMatch
  ELSE
    LET kw == TopLevelKeywords[CHOOSE n \in 1..5 : StartsAtCI(t, p + 1, TopLevelKeywords[n])]
        k1 == p + 1 + Len(kw)
        r  == SkipWs(t, k1)
        c  == At(t, r)
        le == IF c \in RomanChars THEN RunEnd(t, r, RomanChars)
              ELSE IF c \in DigitChars THEN RunEnd(t, r, DigitChars)
              ELSE IF c \in UpperChars \cup LowerChars THEN r + 1
              ELSE -1
        r2 == SkipWs(t, le)
        NLs == {x \in le..(r2 - 1) : At(t, x) = NL}
        d  == IF At(t, r2) \in {":", "-"} THEN r2
              ELSE IF NLs # {} THEN Max(NLs)
              ELSE -1
        r3 == SkipWs(t, d + 1)
    IN IF r = k1 \/ le = -1 \/ d = -1 THEN NoMatch
       ELSE Found(p, LineEnd(t, r3), Substring(t, p + 1, le), Substring(t, r3, LineEnd(t, r3)))

\* \d+(?:\.\d+)* from offset e, the first \d+ already taken: the offset
\* where the section number stops.
RECURSIVE DecimalSectionEnd(_, _)
DecimalSectionEnd(t, e) ==
  IF At(t, e) = "." /\ At(t, e + 1) \in DigitChars
  THEN DecimalSectionEnd(t, RunEnd(t, e + 1, DigitChars))
  ELSE e

\* /\n(\d+(?:\.\d+)*)\.?\s+([^\n]+?)(?=\n)/g tried at offset p.
decimalPattern(t, p) ==
  IF At(t, p) # NL \/ At(t, p + 1) \notin DigitChars THEN NoMatch
  ELSE
    LET e == DecimalSectionEnd(t, RunEnd(t, p + 1, DigitChars))
        q == IF At(t, e) = "." THEN e + 1 ELSE e
        h == LazyHeaderStart(t, q)
    IN IF h = -1 THEN NoMatch
       ELSE Found(p, LineEnd(t, h), Substring(t, p + 1, e), Substring(t, h, LineEnd(t, h)))

\* /\n\s*\((LABEL)\)\s+([^\n]+)/g tried at offset p, whatever the class of
\* LABEL: the four classes of parenthesized labels have at most 4 characters
\* and none holds a ')', so the label is the text up to the first ')'.
ParenPattern(t, p) ==
  IF At(t, p) # NL THEN NoMatch
  ELSE
    LET a == SkipWs(t, p + 1)
        Cs == {c \in (a + 2)..(a + 5) : At(t, c) = ")"}
        c == IF Cs = {} THEN -1 ELSE Min(Cs)
        label == Substring(t, a + 1, c)
        h == HeaderStart(t, c + 1)
    IN IF At(t, a) # "(" \/ c = -1 THEN NoMatch
       ELSE IF h = -1 THEN NoMatch
       ELSE Found(p, LineEnd(t, h), label, Substring(t, h, LineEnd(t, h)))

\* [a-z]{1,2}
IsLetterLabel(l) == Len(l) \in 1..2 /\ \A n \in 1..Len(l) : l[n] \in LowerChars
\* i{1,3}|iv|v|vi{0,3}|ix|x|xi{1,3}
IsRomanLabel(l) ==
  l \in {<<"i">>, <<"i", "i">>, <<"i", "i", "i">>, <<"i", "v">>, <<"v">>, <<"v", "i">>, <<"v", "i", "i">>, <<"v", "i", "i", "i">>, <<"i", "x">>, <<"x">>, <<"x", "i">>, <<"x", "i", "i">>, <<"x", "i", "i", "i">>}
\* \d{1,2}
IsNumberLabel(l) == Len(l) \in 1..2 /\ \A n \in 1..Len(l) : l[n] \in DigitChars
\* I{1,3}|IV|V|VI{0,3}|IX|X|XI{1,3}
IsCapitalRomanLabel(l) ==
  l \in {<<"I">>, <<"I", "I">>, <<"I", "I", "I">>, <<"I", "V">>, <<"V">>, <<"V", "I">>, <<"V", "I", "I">>, <<"V", "I", "I", "I">>, <<"I", "X">>, <<"X">>, <<"X", "I">>, <<"X", "I", "I">>, <<"X", "I", "I", "I">>}

\* The four patterns of parenthesized labels tried at offset p.
letterPattern(t, p) ==
  LET m == ParenPattern(t, p)
  IN IF m.ok /\ IsLetterLabel(m.g1) THEN m ELSE NoMatch
romanPattern(t, p) ==
  LET m == ParenPattern(t, p)
  IN IF m.ok /\ IsRomanLabel(m.g1) THEN m ELSE NoMatch
numberPattern(t, p) ==
  LET m == ParenPattern(t, p)
  IN IF m.ok /\ IsNumberLabel(m.g1) THEN m ELSE NoMatch
capitalRomanPattern(t, p) ==
  LET m == ParenPattern(t, p)
  IN IF m.ok /\ IsCapitalRomanLabel(m.g1) THEN m ELSE NoMatch

\* /\n([A-Z])\.\s+([^\n]+)/g tried at offset p.
capitalLetterPattern(t, p) ==
  LET h == HeaderStart(t, p + 3)
  IN IF At(t, p) # NL \/ At(t, p + 1) \notin UpperChars \/ At(t, p + 2) # "." \/ h = -1
     THEN NoMatch
     ELSE Found(p, LineEnd(t, h), <<At(t, p + 1)>>, Substring(t, h, LineEnd(t, h)))

\* text.matchAll(pattern), tries[p] being the pattern tried at offset p of
\* t: the matches from offset `from` on, left to right, each search resuming
\* where the previous match stopped.  Every pattern starts on a line break,
\* so only line breaks are tried.
RECURSIVE MatchAllFrom(_, _, _)
MatchAllFrom(tries, t, from) ==
  LET p == LineEnd(t, from)
  IN IF p >= Len(t) THEN <<>>
     ELSE IF tries[p].ok THEN <<tries[p]>> \o MatchAllFrom(tries, t, tries[p].end)
     ELSE MatchAllFrom(tries, t, p + 1)
MatchAll(tries, t) == MatchAllFrom(tries, t, 0)
\* The offsets of t.
Offsets(t) == 0..Len(t)

\* ------------------------------------------------------------ match list
\* A faulty variant of IsTocHeader: the leader dots are looked for at the
\* start of the header only.
IsTocHeader_Anchored(header) ==
  Len(header) >= 3 /\ \A m \in 1..3 : header[m] = "."

\* A faulty variant of IsTocHeader: three dots or dashes in a row are enough.
IsTocHeader_ThreeLeaders(header) ==
  LET n == Len(header)
  IN \/ \E a \in 1..(n - 2) : \A m \in a..(a + 2) : header[m] \in LeaderChars
     \/ \E a \in 3..n : \E b \in a..n :
          /\ header[a - 2] = "." /\ header[a - 1] = "."
          /\ \A m \in a..(b - 1) : header[m] \in WsChars
          /\ \A m \in b..n : header[m] \in DigitChars

\* /\.{3,}|\.{2,}\s*\d+$|[.-]{5,}/.test(header)
IsTocHeader(header) ==
  LET n == Len(header)
  IN \/ \E a \in 1..(n - 2) : \A m \in a..(a + 2) : header[m] = "."
     \/ \E a \in 3..n : \E b \in a..n :
          /\ header[a - 2] = "." /\ header[a - 1] = "."
          /\ \A m \in a..(b - 1) : header[m] \in WsChars
          /\ \A m \in b..n : header[m] \in DigitChars
     \/ \E a \in 1..(n - 4) : \A m \in a..(a + 4) : header[m] \in LeaderChars

\* /^(Corporate|Financial|Legal|Borrower|Lender|Details|Information)/i.test(header)
CapitalHeaderKeywords ==
  {<<"C", "o", "r", "p", "o", "r", "a", "t", "e">>, <<"F", "i", "n", "a", "n", "c", "i", "a", "l">>, <<"L", "e", "g", "a", "l">>, <<"B", "o", "r", "r", "o", "w", "e", "r">>, <<"L", "e", "n", "d", "e", "r">>, <<"D", "e", "t", "a", "i", "l", "s">>, <<"I", "n", "f", "o", "r", "m", "a", "t", "i", "o", "n">>}
IsKnownCapitalHeader(header) == \E kw \in CapitalHeaderKeywords : StartsAtCI(header, 0, kw)

\* section.split('.').length - 1
DotCount(section) == Cardinality({n \in 1..Len(section) : section[n] = "."})

\* The type a top-level match is tagged with.
TopLevelType(g1) ==
  LET l == ToLowerCase(g1)
  IN IF Includes(l, <<"c", "l", "a", "u", "s", "e">>) THEN "clause"
     ELSE IF Includes(l, <<"a", "r", "t", "i", "c", "l", "e">>) THEN "article"
     ELSE IF Includes(l, <<"s", "c", "h", "e", "d", "u", "l", "e">>) THEN "schedule"
     ELSE IF Includes(l, <<"p", "a", "r", "t">>) THEN "part"
     ELSE "decimal"

Match(section, header, startIndex, level, type) ==
  [section |-> section, header |-> header, startIndex |-> startIndex,
   level |-> level, type |-> type]

Paren(label) == <<"(">> \o label \o <<")">>

\* for (const match of text.matchAll(topLevelPattern)) matches.push(...)
TopLevelMatches(t) ==
  LET ms == MatchAll([p \in Offsets(t) |-> topLevelPattern(t, p)], t)
  IN [n \in 1..Len(ms) |->
        Match(Trim(ms[n].g1), Trim(ms[n].g2), ms[n].index, TopLevelLevel,
              TopLevelType(ms[n].g1))]

\* The decimal loop: table-of-contents entries are skipped.
DecimalMatches(t) ==
  LET ms == SelectSeq(MatchAll([p \in Offsets(t) |-> decimalPattern(t, p)], t),
                      LAMBDA m : ~IsTocHeader(Trim(m.g2)))
  IN [n \in 1..Len(ms) |->
        Match(ms[n].g1, Trim(ms[n].g2), ms[n].index, DotCount(ms[n].g1) + 1, "decimal")]

LetterMatches(t) ==
  LET ms == MatchAll([p \in Offsets(t) |-> letterPattern(t, p)], t)
  IN [n \in 1..Len(ms) |->
        Match(Paren(ms[n].g1), Trim(ms[n].g2), ms[n].index, LetterLevel, "letter")]

RomanMatches(t) ==
  LET ms == MatchAll([p \in Offsets(t) |-> romanPattern(t, p)], t)
  IN [n \in 1..Len(ms) |->
        Match(Paren(ms[n].g1), Trim(ms[n].g2), ms[n].index, RomanLevel, "roman")]

NumberMatches(t) ==
  LET ms == MatchAll([p \in Offsets(t) |-> numberPattern(t, p)], t)
  IN [n \in 1..Len(ms) |->
        Match(Paren(ms[n].g1), Trim(ms[n].g2), ms[n].index, NumberLevel, "letter")]

CapitalRomanMatches(t) ==
  LET ms == MatchAll([p \in Offsets(t) |-> capitalRomanPattern(t, p)], t)
  IN [n \in 1..Len(ms) |->
        Match(Paren(ms[n].g1), Trim(ms[n].g2), ms[n].index, CapitalRomanLevel, "decimal")]

\* The capital-letter loop: a short header that starts with no known word
\* is skipped.
CapitalLetterMatches(t) ==
  LET ms == SelectSeq(MatchAll([p \in Offsets(t) |-> capitalLetterPattern(t, p)], t),
                      LAMBDA m : ~(Len(Trim(m.g2)) < MinCapitalHeader
                                   /\ ~IsKnownCapitalHeader(Trim(m.g2))))
  IN [n \in 1..Len(ms) |->
        Match(ms[n].g1, Trim(ms[n].g2), ms[n].index, CapitalLetterLevel, "decimal")]

\* `matches` after the seven loops.
CollectMatches(t) ==
  TopLevelMatches(t) \o DecimalMatches(t) \o LetterMatches(t) \o RomanMatches(t) \o
  NumberMatches(t) \o CapitalRomanMatches(t) \o CapitalLetterMatches(t)

\* A faulty variant of SortByStartIndex: matches of the same offset end up
\* in the reverse of the order they were pushed in.
RECURSIVE SortByStartIndex_TiesReversed(_)
SortByStartIndex_TiesReversed(ms) ==
  IF ms = <<>> THEN <<>>
  ELSE LET front == SortByStartIndex_TiesReversed(SubSeq(ms, 1, Len(ms) - 1))
           m == ms[Len(ms)]
           before == SelectSeq(front, LAMBDA x : x.startIndex < m.startIndex)
           after == SelectSeq(front, LAMBDA x : x.startIndex >= m.startIndex)
       IN before \o <<m>> \o after

\* matches.sort((a, b) => a.startIndex - b.startIndex): a stable sort.
RECURSIVE SortByStartIndex(_)
SortByStartIndex(ms) ==
  IF ms = <<>> THEN <<>>
  ELSE LET front == SortByStartIndex(SubSeq(ms, 1, Len(ms) - 1))
           m == ms[Len(ms)]
           before == SelectSeq(front, LAMBDA x : x.startIndex <= m.startIndex)
           after == SelectSeq(front, LAMBDA x : x.startIndex > m.startIndex)
       IN before \o <<m>> \o after

\* A string that is neither undefined nor empty.
Truthy(s) == s # Undefined /\ s # <<>>

\* ------------------------------------------------------- type classifier
\* A faulty variant of InheritedType: every context with "covenant" gives
\* financial_covenant, "negative" or not.
InheritedType_AnyCovenant(parentLower) ==
  IF Includes(parentLower, <<"e", "v", "e", "n", "t">>) /\ Includes(parentLower, <<"d", "e", "f", "a", "u", "l", "t">>) THEN "default"
  ELSE IF Includes(parentLower, <<"c", "o", "v", "e", "n", "a", "n", "t">>) THEN "financial_covenant"
  ELSE IF \/ Includes(parentLower, <<"r", "e", "p", "r", "e", "s", "e", "n", "t", "a", "t", "i", "o", "n">>)
          \/ Includes(parentLower, <<"w", "a", "r", "r", "a", "n", "t">>)
       THEN "representation"
  ELSE IF Includes(parentLower, <<"m", "a", "t", "e", "r", "i", "a", "l", " ", "a", "d", "v", "e", "r", "s", "e">>) THEN "MAC"
  ELSE "none"

\* The parent-context rules of detectClauseType, on the lowercased context:
\* the type inherited, or "none".
InheritedType(parentLower) ==
  IF Includes(parentLower, <<"e", "v", "e", "n", "t">>) /\ Includes(parentLower, <<"d", "e", "f", "a", "u", "l", "t">>) THEN "default"
  ELSE IF \/ Includes(parentLower, <<"f", "i", "n", "a", "n", "c", "i", "a", "l", " ", "c", "o", "v", "e", "n", "a", "n", "t">>)
          \/ (Includes(parentLower, <<"c", "o", "v", "e", "n", "a", "n", "t">>) /\ ~Includes(parentLower, <<"n", "e", "g", "a", "t", "i", "v", "e">>))
       THEN "financial_covenant"
  ELSE IF \/ Includes(parentLower, <<"r", "e", "p", "r", "e", "s", "e", "n", "t", "a", "t", "i", "o", "n">>)
          \/ Includes(parentLower, <<"w", "a", "r", "r", "a", "n", "t">>)
          \/ Includes(parentLower, <<"w", "a", "r", "r", "a", "n", "t", "i", "e", "s">>)
       THEN "representation"
  ELSE IF Includes(parentLower, <<"m", "a", "t", "e", "r", "i", "a", "l", " ", "a", "d", "v", "e", "r", "s", "e">>) THEN "MAC"
  ELSE "none"

MacKeywords ==
  {<<"m", "a", "t", "e", "r", "i", "a", "l", " ", "a", "d", "v", "e", "r", "s", "e">>, <<"m", "a", "c", " ", "c", "l", "a", "u", "s", "e">>, <<"m", "a", "t", "e", "r", "i", "a", "l", " ", "a", "d", "v", "e", "r", "s", "e", " ", "c", "h", "a", "n", "g", "e">>, <<"m", "a", "t", "e", "r", "i", "a", "l", " ", "a", "d", "v", "e", "r", "s", "e", " ", "e", "f", "f", "e", "c", "t">>}
FinancialKeywords ==
  {<<"f", "i", "n", "a", "n", "c", "i", "a", "l", " ", "c", "o", "v", "e", "n", "a", "n", "t">>, <<"e", "b", "i", "t", "d", "a">>, <<"d", "e", "b", "t", " ", "t", "o", " ", "e", "q", "u", "i", "t", "y">>, <<"l", "e", "v", "e", "r", "a", "g", "e", " ", "r", "a", "t", "i", "o">>, <<"l", "e", "v", "e", "r", "a", "g", "e">>,
   <<"i", "n", "t", "e", "r", "e", "s", "t", " ", "c", "o", "v", "e", "r">>, <<"i", "n", "t", "e", "r", "e", "s", "t", " ", "s", "e", "r", "v", "i", "c", "e">>, <<"d", "e", "b", "t", " ", "s", "e", "r", "v", "i", "c", "e">>, <<"c", "a", "s", "h", " ", "f", "l", "o", "w", " ", "c", "o", "v", "e", "r">>,
   <<"f", "i", "n", "a", "n", "c", "i", "a", "l", " ", "r", "a", "t", "i", "o">>, <<"c", "o", "v", "e", "n", "a", "n", "t", " ", "r", "a", "t", "i", "o">>}
DefaultKeywords ==
  {<<"e", "v", "e", "n", "t", " ", "o", "f", " ", "d", "e", "f", "a", "u", "l", "t">>, <<"e", "v", "e", "n", "t", "s", " ", "o", "f", " ", "d", "e", "f", "a", "u", "l", "t">>, <<"d", "e", "f", "a", "u", "l", "t", " ", "p", "r", "o", "v", "i", "s", "i", "o", "n", "s">>, <<"n", "o", "n", "-", "p", "a", "y", "m", "e", "n", "t">>,
   <<"c", "r", "o", "s", "s", " ", "d", "e", "f", "a", "u", "l", "t">>, <<"c", "r", "o", "s", "s", "-", "d", "e", "f", "a", "u", "l", "t">>, <<"i", "n", "s", "o", "l", "v", "e", "n", "c", "y">>, <<"a", "c", "c", "e", "l", "e", "r", "a", "t", "i", "o", "n">>}
DefinitionKeywords ==
  {<<"d", "e", "f", "i", "n", "i", "t", "i", "o", "n", "s">>, <<"d", "e", "f", "i", "n", "e", "d", " ", "t", "e", "r", "m", "s">>, <<"i", "n", "t", "e", "r", "p", "r", "e", "t", "a", "t", "i", "o", "n">>, <<"m", "e", "a", "n", "s">>, <<"s", "h", "a", "l", "l", " ", "m", "e", "a", "n">>, <<"i", "s", " ", "d", "e", "f", "i", "n", "e", "d", " ", "a", "s">>}

\* The four alternatives of the representation rule, and the alternative
\* of the default rule that is not a keyword.
RepresentationWording(combined) ==
  \/ Includes(combined, <<"r", "e", "p", "r", "e", "s", "e", "n", "t">>)
  \/ Includes(combined, <<"w", "a", "r", "r", "a", "n", "t", "y">>)
  \/ Includes(combined, <<"w", "a", "r", "r", "a", "n", "t", "s", " ", "t", "h", "a", "t">>)
  \/ (Includes(combined, <<"s", "t", "a", "t", "u", "s">>) /\
        (Includes(combined, <<"d", "u", "l", "y">>) \/ Includes(combined, <<"v", "a", "l", "i", "d", "l", "y">>)))
MisrepresentationDefault(combined) ==
  Includes(combined, <<"m", "i", "s", "r", "e", "p", "r", "e", "s", "e", "n", "t", "a", "t", "i", "o", "n">>) /\ Includes(combined, <<"d", "e", "f", "a", "u", "l", "t">>)

\* A faulty variant of OwnTextType: the rules are tried from the last to the
\* first.
OwnTextType_LastFirst(combined) ==
  IF \E kw \in DefinitionKeywords : Includes(combined, kw) THEN "definition"
  ELSE IF (\E kw \in DefaultKeywords : Includes(combined, kw)) \/ MisrepresentationDefault(combined)
       THEN "default"
  ELSE IF RepresentationWording(combined) THEN "representation"
  ELSE IF \E kw \in FinancialKeywords : Includes(combined, kw) THEN "financial_covenant"
  ELSE IF \E kw \in MacKeywords : Includes(combined, kw) THEN "MAC"
  ELSE "general"

\* A faulty variant of OwnTextType: the default rule is tried before the
\* representation rule.
OwnTextType_DefaultFirst(combined) ==
  IF \E kw \in MacKeywords : Includes(combined, kw) THEN "MAC"
  ELSE IF \E kw \in FinancialKeywords : Includes(combined, kw) THEN "financial_covenant"
  ELSE IF (\E kw \in DefaultKeywords : Includes(combined, kw)) \/ MisrepresentationDefault(combined)
       THEN "default"
  ELSE IF RepresentationWording(combined) THEN "representation"
  ELSE IF \E kw \in DefinitionKeywords : Includes(combined, kw) THEN "definition"
  ELSE "general"

\* The own-text rules of detectClauseType, on the lowercased header + ' ' + text.
OwnTextType(combined) ==
  IF \E kw \in MacKeywords : Includes(combined, kw) THEN "MAC"
  ELSE IF \E kw \in FinancialKeywords : Includes(combined, kw) THEN "financial_covenant"
  ELSE IF \/ Includes(combined, <<"r", "e", "p", "r", "e", "s", "e", "n", "t">>)
          \/ Includes(combined, <<"w", "a", "r", "r", "a", "n", "t", "y">>)
          \/ Includes(combined, <<"w", "a", "r", "r", "a", "n", "t", "s", " ", "t", "h", "a", "t">>)
          \/ (Includes(combined, <<"s", "t", "a", "t", "u", "s">>) /\
                (Includes(combined, <<"d", "u", "l", "y">>) \/ Includes(combined, <<"v", "a", "l", "i", "d", "l", "y">>)))
       THEN "representation"
  ELSE IF \/ \E kw \in DefaultKeywords : Includes(combined, kw)
          \/ (Includes(combined, <<"m", "i", "s", "r", "e", "p", "r", "e", "s", "e", "n", "t", "a", "t", "i", "o", "n">>) /\ Includes(combined, <<"d", "e", "f", "a", "u", "l", "t">>))
       THEN "default"
  ELSE IF \E kw \in DefinitionKeywords : Includes(combined, kw) THEN "definition"
  ELSE "general"

\* type ClauseType
ClauseTypes == {"MAC", "financial_covenant", "representation", "default", "definition", "general"}

\* detectClauseType(header, text, _section, parentSection); parentSection is
\* a string or Undefined, and the empty string counts as absent.
detectClauseType(header, text, section, parentSection) ==
  LET inherited == IF Truthy(parentSection)
                   THEN InheritedType(ToLowerCase(parentSection))
                   ELSE "none"
  IN IF inherited # "none" THEN inherited
     ELSE OwnTextType(ToLowerCase(header \o <<" ">> \o text))

\* --------------------------------------------------------- clause build
\* matches[i + 1]?.startIndex || text.length, i being 0-based: an offset of
\* 0 is falsy and gives text.length.
EndIndex(ms, i, t) ==
  IF i + 1 < Len(ms) /\ ms[i + 2].startIndex # 0 THEN ms[i + 2].startIndex
  ELSE Len(t)

\* s.indexOf('\n'), or -1
IndexOfNL(s) == IF LineEnd(s, 0) < Len(s) THEN LineEnd(s, 0) ELSE -1

\* The clause text built from a match's header and its slice of the
\* document: the slice is trimmed, its first line is dropped, and the header
\* is put in front of what is left.
ClauseTextOf(header, slice) ==
  LET fullText == Trim(slice)
      firstLineEnd == IndexOfNL(fullText)
      textWithoutHeader == IF firstLineEnd # -1
                           THEN Trim(Substring(fullText, firstLineEnd + 1, Len(fullText)))
                           ELSE <<>>
  IN IF header # <<>>
     THEN (IF textWithoutHeader # <<>>
           THEN header \o <<NL, NL>> \o textWithoutHeader
           ELSE header)
     ELSE textWithoutHeader

\* The clause text built for match i (0-based) of the sorted list.
ClauseText(ms, i, t) ==
  ClauseTextOf(ms[i + 1].header, Substring(t, ms[i + 1].startIndex, EndIndex(ms, i, t)))

\* Whether clauses.find(c => c.section === label) finds a clause, and the
\* clause it finds: the first one carrying the label.
HasSection(cs, label) == \E n \in 1..Len(cs) : cs[n].section = label
FindBySection(cs, label) == cs[Min({n \in 1..Len(cs) : cs[n].section = label})]

\* The context handed to detectClauseType, parentText || parentSection,
\* parentText being parentClause?.text || ''.
ParentContext(cs, parentSection) ==
  IF Truthy(parentSection) /\ HasSection(cs, parentSection)
       /\ FindBySection(cs, parentSection).text # <<>>
  THEN FindBySection(cs, parentSection).text
  ELSE parentSection

\* The id `clause_${k}`.
ClauseId(k) == <<"clause_", k>>

Clause(id, section, text, type, parentSection) ==
  [id |-> id, section |-> section, text |-> text, type |-> type,
   parentSection |-> parentSection]

\* The level stack: a sparse array, a function on the levels written so far.
StackAt(stack, l) == IF l \in DOMAIN stack THEN stack[l] ELSE Undefined
\* A faulty variant of StackPut: the slots of the deeper levels are cleared.
StackPut_ClearDeeper(stack, l, label) ==
  [x \in {y \in DOMAIN stack : y < l} \cup {l} |-> IF x = l THEN label ELSE stack[x]]

\* levelStack[l] = label: the other slots are left as they are.
StackPut(stack, l, label) ==
  [x \in (DOMAIN stack) \cup {l} |-> IF x = l THEN label ELSE stack[x]]

\* A faulty variant of KeyOf: the key leaves the text out.
KeyOf_SectionOnly(clause) == clause.section \o <<"|">>

\* The key `${clause.section}|${clause.text}` of the seen map.
KeyOf(clause) == clause.section \o <<"|">> \o clause.text

\* seen.set(key, clause)
MapPut(map, key, clause) ==
  [x \in (DOMAIN map) \cup {key} |-> IF x = key THEN clause ELSE map[x]]

\* A faulty variant of ReplaceAt: the clause kept is removed and the new one
\* is pushed at the end.
ReplaceAt_Append(cs, index, clause) ==
  Append(SubSeq(cs, 1, index - 1) \o SubSeq(cs, index + 1, Len(cs)), clause)

\* deduplicatedClauses[index] = clause, index being 1-based
ReplaceAt(cs, index, clause) == [cs EXCEPT ![index] = clause]

\* deduplicatedClauses.indexOf(existing), 1-based; 0 when absent.
IndexOf(cs, c) ==
  IF \E n \in 1..Len(cs) : cs[n] = c THEN Min({n \in 1..Len(cs) : cs[n] = c}) ELSE 0

\* ------------------------------------------------------------ documents
\* The lines documents are made of: headings of several matcher classes, a
\* table-of-contents line, body lines.
CatalogLines ==
  << <<"1", ".", " ", "D", "E", "F", "I", "N", "I", "T", "I", "O", "N", "S">>,
     <<"\"", "B", "o", "r", "r", "o", "w", "e", "r", "\"", " ", "m", "e", "a", "n", "s", " ", "t", "h", "e", " ", "c", "o", "m", "p", "a", "n", "y", ".">>,
     <<"1", ".", "1", " ", "F", "u", "r", "t", "h", "e", "r", " ", "p", "r", "o", "v", "i", "s", "i", "o", "n", "s", " ", "a", "p", "p", "l", "y", ".">>,
     <<"1", ".", " ", "D", "E", "F", "I", "N", "I", "T", "I", "O", "N", "S", ".", ".", ".", ".", ".", ".", ".", ".", ".", ".", " ", "5">>,
     <<"(", "i", ")", " ", "t", "h", "e", " ", "B", "o", "r", "r", "o", "w", "e", "r", " ", "p", "a", "y", "s">>,
     <<"M", "a", "t", "e", "r", "i", "a", "l", " ", "a", "d", "v", "e", "r", "s", "e", " ", "e", "f", "f", "e", "c", "t", " ", "m", "e", "a", "n", "s", " ", "h", "a", "r", "m", ".">>,
     <<"(", "a", ")", " ", "i", "t", "e", "m">>,
     <<"C", "L", "A", "U", "S", "E", " ", "1", ":", " ", "E", "v", "e", "n", "t", "s", " ", "o", "f", " ", "D", "e", "f", "a", "u", "l", "t">>,
     <<"(", "1", ")", " ", "n", "u", "m", "b", "e", "r", "e", "d", " ", "p", "a", "r", "a", "g", "r", "a", "p", "h">>,
     <<"(", "I", ")", " ", "M", "a", "j", "o", "r", " ", "d", "i", "v", "i", "s", "i", "o", "n", " ", "h", "e", "r", "e">>,
     <<"A", ".", " ", "C", "o", "r", "p", "o", "r", "a", "t", "e", "s">>,
     <<"o", "k">> >>
\* A line longer than the clause text limit.
FillerLine == [n \in 1..FillerLen |-> "x"]

RECURSIVE JoinLines(_)
JoinLines(ls) == IF ls = <<>> THEN <<>> ELSE <<NL>> \o ls[1] \o JoinLines(Tail(ls))
\* The text made of the lines ls, each preceded by a line break, and a final
\* line break; the empty text for no line.
Document(ls) == IF ls = <<>> THEN <<>> ELSE JoinLines(ls) \o <<NL>>

LineChoices(n) == UNION {[1..m -> 1..Len(CatalogLines)] : m \in 0..n}
Documents ==
  {Document([n \in 1..Len(c) |-> CatalogLines[c[n]]]) : c \in LineChoices(MaxLines)}
  \cup
  {Document([n \in 1..Len(c) |-> CatalogLines[c[n]]] \o <<FillerLine>>) :
     c \in LineChoices(MaxLongLines)}

\* ---------------------------------------------------------------- state
\* No call has returned yet.
NoCall == [text |-> <<>>, result |-> <<>>]
\* detectClauseType is not called on its own.
NotDetected == "not detected"
NoDetection == [header |-> <<>>, text |-> <<>>, parentSection |-> Undefined, type |-> NotDetected]
VARIABLES
  text,                 \* the document
  pc,                   \* where extractClausesRegex is
  matches,              \* the match list
  i,                    \* the build loop's index (0-based)
  levelStack,           \* the current section label per level
  clauses,              \* the clauses built
  j,                    \* the deduplication loop's index (0-based)
  deduplicatedClauses,  \* the clauses kept
  seen,                 \* key -> the clause kept for it
  w,                    \* the depth walk: clauses of the output already visited
  parent,               \* the depth walk: the label being followed
  result,               \* the list returned
  calls,                \* the calls that have returned
  first,                \* the text and the result of the first call
  detection,            \* a call of detectClauseType: its arguments, its result
  issues,               \* analyzeIssues: the issues it is given
  canonicalCases,       \* analyzer.ts: the canonical cases loaded with the module
  apc,                  \* where analyzeIssues is
  modelCalls,           \* analyzeIssues: the calls of the model made
  answer,               \* analyzeIssues: what the call of the model gave
  grounded,             \* analyzeIssues: the list returned
  detectorClauses,      \* detectIssues: the clauses it is given
  dpc,                  \* where detectIssues is
  reply,                \* detectIssues: what the call of the model gave
  foundIssues,          \* detectIssues: the list returned
  grouping              \* a call of groupClausesByType: its argument, its result

\* The variables of extractClauses and detectClauseType, of analyzeIssues,
\* and of the modules other than the parser.
parserVars == <<text, pc, matches, i, levelStack, clauses, j, deduplicatedClauses, seen,
                w, parent, result, calls, first, detection>>
analyzerVars == <<issues, canonicalCases, apc, modelCalls, answer, grounded>>
detectorVars == <<detectorClauses, dpc, reply, foundIssues>>
otherModules == <<analyzerVars, detectorVars, grouping>>

vars == <<text, pc, matches, i, levelStack, clauses, j, deduplicatedClauses, seen,
          w, parent, result, calls, first, detection, otherModules>>

\* analyzeIssues is not called.
NoAnswer == [kind |-> "none", analyses |-> <<>>]
AnalyzerIdle ==
  /\ issues = <<>>
  /\ canonicalCases = <<>>
  /\ apc = "idle"
  /\ modelCalls = 0
  /\ answer = NoAnswer
  /\ grounded = <<>>
\* detectIssues is not called.
NoReply == [kind |-> "none", issues |-> <<>>]
DetectorIdle ==
  /\ detectorClauses = <<>>
  /\ dpc = "idle"
  /\ reply = NoReply
  /\ foundIssues = <<>>
\* groupClausesByType is not called.
NoGroups ==
  [definition |-> <<>>, MAC |-> <<>>, financial_covenant |-> <<>>,
   representation |-> <<>>, default |-> <<>>, general |-> <<>>]
NoGrouping == [clauses |-> <<>>, called |-> FALSE, grouped |-> NoGroups]
\* No function of another module is called.
OtherModulesIdle == AnalyzerIdle /\ DetectorIdle /\ grouping = NoGrouping

Init ==
  /\ text \in Documents
  /\ pc = "start"
  /\ matches = <<>>
  /\ i = 0
  /\ levelStack = <<>>
  /\ clauses = <<>>
  /\ j = 0
  /\ deduplicatedClauses = <<>>
  /\ seen = <<>>
  /\ w = 0
  /\ parent = Undefined
  /\ result = <<>>
  /\ calls = 0
  /\ first = NoCall
  /\ detection = NoDetection
  /\ OtherModulesIdle

\* The caller gets the list r: one more call has returned, and the first
\* call is remembered.
Returned(r) ==
  /\ calls' = calls + 1
  /\ first' = IF calls = 0 THEN [text |-> text, result |-> r] ELSE first

\* The seven matcher loops.
Collect ==
  /\ pc = "start"
  /\ matches' = CollectMatches(text)
  /\ pc' = "collected"
  /\ UNCHANGED <<text, i, levelStack, clauses, j, deduplicatedClauses, seen, w, parent, result, calls, first, detection, otherModules>>

\* A faulty variant of FullTextClause: the text is not trimmed.
FullTextClause_Untrimmed(t) == Clause(ClauseId(1), <<"F", "u", "l", "l", " ", "T", "e", "x", "t">>, t, "general", Undefined)

\* The clause standing for a text with no structured section.
FullTextClause(t) == Clause(ClauseId(1), <<"F", "u", "l", "l", " ", "T", "e", "x", "t">>, Trim(t), "general", Undefined)

\* A faulty variant of FallbackResult: nothing is returned.
FallbackResult_Empty(t) == <<>>
\* A faulty variant of FallbackResult: the noise filter of the build loop is
\* applied to the whole text too.
FallbackResult_Filtered(t) ==
  IF Len(Trim(t)) > NoiseLen THEN <<FullTextClause(t)>> ELSE <<>>

\* if (matches.length === 0) return [{...}]
FallbackResult(t) == <<FullTextClause(t)>>

\* No match: the whole text as one clause.
ReturnFullText ==
  /\ pc = "collected"
  /\ Len(matches) = 0
  /\ result' = FallbackResult(text)
  /\ pc' = "done"
  /\ Returned(result')
  /\ UNCHANGED <<text, matches, i, levelStack, clauses, j, deduplicatedClauses, seen, w, parent, detection, otherModules>>

\* Sort by position in the document.
Sort ==
  /\ pc = "collected"
  /\ Len(matches) # 0
  /\ matches' = SortByStartIndex(matches)
  /\ pc' = "build"
  /\ UNCHANGED <<text, i, levelStack, clauses, j, deduplicatedClauses, seen, w, parent, result, calls, first, detection, otherModules>>

\* Where the build loop goes after the iteration of index i.
AfterBuild(cs) ==
  IF i + 1 < Len(matches) THEN "build" ELSE IF Len(cs) > 0 THEN "dedup" ELSE "depth"

\* A faulty variant of ParentSectionOf: the slot read is the clause's own.
ParentSectionOf_SameLevel(stack, level) == StackAt(stack, level)

\* A faulty variant of ParentSectionOf: the slot read is two levels up.
ParentSectionOf_TwoLevelsUp(stack, level) ==
  IF level > 1 THEN StackAt(stack, level - 2) ELSE Undefined

\* match.level > 0 ? levelStack[match.level - 1] : undefined
ParentSectionOf(stack, level) == IF level > 0 THEN StackAt(stack, level - 1) ELSE Undefined

\* A faulty variant of BuiltClause: the classifier is handed the text of the
\* clause pushed last, where there is one, instead of the parent's context.
BuiltClause_PreviousContext(stack) ==
  LET match == matches[i + 1]
      clauseText == ClauseText(matches, i, text)
      parentSection == ParentSectionOf(stack, match.level)
  IN Clause(ClauseId(i + 1), match.section, Substring(clauseText, 0, MaxClauseText),
            detectClauseType(match.header, clauseText, match.section,
                             IF clauses # <<>> THEN clauses[Len(clauses)].text
                             ELSE ParentContext(clauses, parentSection)),
            parentSection)

\* A faulty variant of IsSubstantial: a text of 10 characters is kept.
IsSubstantial_FromTen(clauseText) == Len(clauseText) >= NoiseLen

\* clauseText.length > 10
IsSubstantial(clauseText) == Len(clauseText) > NoiseLen

\* A faulty variant of BuiltClause: the clauses are numbered as they are
\* retained, whatever the index of the match.
BuiltClause_CountRetained(stack) ==
  LET match == matches[i + 1]
      clauseText == ClauseText(matches, i, text)
      parentSection == ParentSectionOf(stack, match.level)
  IN Clause(ClauseId(Len(clauses) + 1), match.section, Substring(clauseText, 0, MaxClauseText),
            detectClauseType(match.header, clauseText, match.section,
                             ParentContext(clauses, parentSection)),
            parentSection)

\* The clause pushed for match i, given the stack after its write.
BuiltClause(stack) ==
  LET match == matches[i + 1]
      clauseText == ClauseText(matches, i, text)
      parentSection == ParentSectionOf(stack, match.level)
  IN Clause(ClauseId(i + 1), match.section, Substring(clauseText, 0, MaxClauseText),
            detectClauseType(match.header, clauseText, match.section,
                             ParentContext(clauses, parentSection)),
            parentSection)

\* One iteration of the build loop, the clause being substantial.
RetainClause ==
  /\ pc = "build"
  /\ IsSubstantial(ClauseText(matches, i, text))
  /\ levelStack' = StackPut(levelStack, matches[i + 1].level, matches[i + 1].section)
  /\ clauses' = Append(clauses, BuiltClause(levelStack'))
  /\ i' = i + 1
  /\ pc' = AfterBuild(clauses')
  /\ UNCHANGED <<text, matches, j, deduplicatedClauses, seen, w, parent, result, calls, first, detection, otherModules>>

\* A faulty variant of DiscardClause: the slot of the level is written before
\* the length is tested.
DiscardClause_WritesStack ==
  /\ pc = "build"
  /\ ~IsSubstantial(ClauseText(matches, i, text))
  /\ levelStack' = StackPut(levelStack, matches[i + 1].level, matches[i + 1].section)
  /\ i' = i + 1
  /\ pc' = AfterBuild(clauses)
  /\ UNCHANGED <<text, matches, clauses, j, deduplicatedClauses, seen, w, parent, result, calls, first, detection, otherModules>>

\* One iteration of the build loop, the clause being noise.
DiscardClause ==
  /\ pc = "build"
  /\ ~IsSubstantial(ClauseText(matches, i, text))
  /\ i' = i + 1
  /\ pc' = AfterBuild(clauses)
  /\ UNCHANGED <<text, matches, levelStack, clauses, j, deduplicatedClauses, seen, w, parent, result, calls, first, detection, otherModules>>

\* Where the deduplication loop goes after the iteration of index j.
AfterDedup == IF j + 1 < Len(clauses) THEN "dedup" ELSE "depth"

\* A clause whose parent label is its own label.
SelfReferential(c) == c.parentSection = c.section

\* Deduplication, first occurrence of the key: keep it.
DedupKeep ==
  /\ pc = "dedup"
  /\ LET clause == clauses[j + 1]
         key == KeyOf(clause)
     IN /\ key \notin DOMAIN seen
        /\ seen' = MapPut(seen, key, clause)
        /\ deduplicatedClauses' = Append(deduplicatedClauses, clause)
  /\ j' = j + 1
  /\ pc' = AfterDedup
  /\ UNCHANGED <<text, matches, i, levelStack, clauses, w, parent, result, calls, first, detection, otherModules>>

\* Deduplication, a duplicate of a self-referential clause that is not
\* self-referential itself: it takes the place of the clause kept.
DedupReplace ==
  /\ pc = "dedup"
  /\ LET clause == clauses[j + 1]
         key == KeyOf(clause)
     IN /\ key \in DOMAIN seen
        /\ SelfReferential(seen[key]) /\ ~SelfReferential(clause)
        /\ LET index == IndexOf(deduplicatedClauses, seen[key])
           IN IF index # 0
              THEN /\ deduplicatedClauses' = ReplaceAt(deduplicatedClauses, index, clause)
                   /\ seen' = MapPut(seen, key, clause)
              ELSE UNCHANGED <<deduplicatedClauses, seen>>
  /\ j' = j + 1
  /\ pc' = AfterDedup
  /\ UNCHANGED <<text, matches, i, levelStack, clauses, w, parent, result, calls, first, detection, otherModules>>

\* Deduplication, any other duplicate: skip it.
DedupSkip ==
  /\ pc = "dedup"
  /\ LET clause == clauses[j + 1]
         key == KeyOf(clause)
     IN /\ key \in DOMAIN seen
        /\ ~(SelfReferential(seen[key]) /\ ~SelfReferential(clause))
  /\ j' = j + 1
  /\ pc' = AfterDedup
  /\ UNCHANGED <<text, matches, i, levelStack, clauses, deduplicatedClauses, seen, w, parent, result, calls, first, detection, otherModules>>

\* The clauses the hierarchy-depth walk still has to visit: those at
\* positions after w that have a parent label.
ToWalk == {n \in (w + 1)..Len(deduplicatedClauses) : Truthy(deduplicatedClauses[n].parentSection)}

\* Hierarchy depth: start the walk of the next clause that has a parent.
DepthEnter ==
  /\ pc = "depth"
  /\ ~Truthy(parent)
  /\ ToWalk # {}
  /\ w' = Min(ToWalk)
  /\ parent' = deduplicatedClauses[w'].parentSection
  /\ UNCHANGED <<text, pc, matches, i, levelStack, clauses, j, deduplicatedClauses, seen, result, calls, first, detection, otherModules>>

\* deduplicatedClauses.find(cl => cl.section === label)?.parentSection
NextParent(cs, label) ==
  IF HasSection(cs, label) THEN FindBySection(cs, label).parentSection ELSE Undefined

\* Hierarchy depth: one turn of `while (parent)`.
DepthStep ==
  /\ pc = "depth"
  /\ Truthy(parent)
  /\ parent' = NextParent(deduplicatedClauses, parent)
  /\ UNCHANGED <<text, pc, matches, i, levelStack, clauses, j, deduplicatedClauses, seen, w, result, calls, first, detection, otherModules>>

\* A faulty variant of Return: when no clause is left, the whole text is
\* returned as one clause.
Return_FallbackWhenEmpty ==
  /\ pc = "depth"
  /\ ~Truthy(parent)
  /\ ToWalk = {}
  /\ result' = IF deduplicatedClauses = <<>> THEN FallbackResult(text)
                ELSE deduplicatedClauses
  /\ pc' = "done"
  /\ Returned(result')
  /\ UNCHANGED <<text, matches, i, levelStack, clauses, j, deduplicatedClauses, seen, w, parent, detection, otherModules>>

\* return deduplicatedClauses
Return ==
  /\ pc = "depth"
  /\ ~Truthy(parent)
  /\ ToWalk = {}
  /\ result' = deduplicatedClauses
  /\ pc' = "done"
  /\ Returned(result')
  /\ UNCHANGED <<text, matches, i, levelStack, clauses, j, deduplicatedClauses, seen, w, parent, detection, otherModules>>

Next ==
  \/ Collect
  \/ ReturnFullText
  \/ Sort
  \/ RetainClause
  \/ DiscardClause
  \/ DedupKeep
  \/ DedupReplace
  \/ DedupSkip
  \/ DepthEnter
  \/ DepthStep
  \/ Return

Spec == Init /\ [][Next]_vars

\* ---------------------------------------------------- call after call
\* The calls of one run, and the texts they are given: at most MaxCallLines
\* of the lines CallLines of the catalog.
CallLines == {<<"1", ".", " ", "D", "E", "F", "I", "N", "I", "T", "I", "O", "N", "S">>, <<"1", ".", "1", " ", "F", "u", "r", "t", "h", "e", "r", " ", "p", "r", "o", "v", "i", "s", "i", "o", "n", "s", " ", "a", "p", "p", "l", "y", ".">>, <<"(", "i", ")", " ", "t", "h", "e", " ", "B", "o", "r", "r", "o", "w", "e", "r", " ", "p", "a", "y", "s">>, <<"(", "a", ")", " ", "i", "t", "e", "m">>}
CallLineChoices == UNION {[1..m -> CallLines] : m \in 0..MaxCallLines}
CallDocuments == {Document(c) : c \in CallLineChoices}

\* A faulty variant of NewLevelStack: the array is shared by the calls.
NewLevelStack_Shared(left) == left

\* const levelStack: string[] = []: a new array at every call, whatever the
\* array `left` of the call before holds.
NewLevelStack(left) == <<>>

\* extractClauses is called again, after the call before has returned: its
\* lists, its stack and its map are new.
CallAgain ==
  /\ pc = "done"
  /\ calls < MaxCalls
  /\ text' \in CallDocuments
  /\ pc' = "start"
  /\ matches' = <<>>
  /\ i' = 0
  /\ levelStack' = NewLevelStack(levelStack)
  /\ clauses' = <<>>
  /\ j' = 0
  /\ deduplicatedClauses' = <<>>
  /\ seen' = <<>>
  /\ w' = 0
  /\ parent' = Undefined
  /\ result' = <<>>
  /\ UNCHANGED <<calls, first, detection, otherModules>>

CallsInit ==
  /\ text \in CallDocuments
  /\ pc = "start"
  /\ matches = <<>>
  /\ i = 0
  /\ levelStack = <<>>
  /\ clauses = <<>>
  /\ j = 0
  /\ deduplicatedClauses = <<>>
  /\ seen = <<>>
  /\ w = 0
  /\ parent = Undefined
  /\ result = <<>>
  /\ calls = 0
  /\ first = NoCall
  /\ detection = NoDetection
  /\ OtherModulesIdle

CallsNext == Next \/ CallAgain

CallsSpec == CallsInit /\ [][CallsNext]_vars

\* ------------------------------------------ detectClauseType on its own
\* The headers and the texts detectClauseType is called with.
DetectHeaders ==
  {<<"M", "a", "t", "e", "r", "i", "a", "l", " ", "A", "d", "v", "e", "r", "s", "e", " ", "E", "f", "f", "e", "c", "t">>, <<"L", "e", "v", "e", "r", "a", "g", "e">>, <<"S", "t", "a", "t", "u", "s">>, <<"M", "i", "s", "r", "e", "p", "r", "e", "s", "e", "n", "t", "a", "t", "i", "o", "n">>, <<"A", "c", "c", "e", "l", "e", "r", "a", "t", "i", "o", "n">>,
   <<"I", "n", "t", "e", "r", "p", "r", "e", "t", "a", "t", "i", "o", "n">>, <<"I", "t", "e", "m">>}
DetectTexts ==
  {<<"a", " ", "m", "a", "t", "e", "r", "i", "a", "l", " ", "a", "d", "v", "e", "r", "s", "e", " ", "c", "h", "a", "n", "g", "e">>, <<"t", "h", "e", " ", "E", "B", "I", "T", "D", "A", " ", "r", "a", "t", "i", "o">>, <<"i", "s", " ", "d", "u", "l", "y", " ", "i", "n", "c", "o", "r", "p", "o", "r", "a", "t", "e", "d">>,
   <<"t", "h", "e", " ", "B", "o", "r", "r", "o", "w", "e", "r", " ", "w", "a", "r", "r", "a", "n", "t", "s", " ", "t", "h", "a", "t">>, <<"a", " ", "d", "e", "f", "a", "u", "l", "t">>, <<"s", "h", "a", "l", "l", " ", "m", "e", "a", "n", " ", "t", "h", "e", " ", "c", "o", "m", "p", "a", "n", "y">>, <<"n", "o", "t", "h", "i", "n", "g">>, <<>>}
\* The parent contexts it is called with: undefined, the empty string, or at
\* most MaxContextPhrases of the phrases ContextPhrases, a space between them.
ContextPhrases ==
  {<<"E", "v", "e", "n", "t", "s", " ", "o", "f", " ", "D", "e", "f", "a", "u", "l", "t">>, <<"F", "i", "n", "a", "n", "c", "i", "a", "l", " ", "C", "o", "v", "e", "n", "a", "n", "t", "s">>, <<"N", "e", "g", "a", "t", "i", "v", "e", " ", "C", "o", "v", "e", "n", "a", "n", "t", "s">>, <<"R", "e", "p", "r", "e", "s", "e", "n", "t", "a", "t", "i", "o", "n", "s">>,
   <<"W", "A", "R", "R", "A", "N", "T", "I", "E", "S">>, <<"M", "a", "t", "e", "r", "i", "a", "l", " ", "A", "d", "v", "e", "r", "s", "e", " ", "C", "h", "a", "n", "g", "e">>, <<"d", "e", "f", "a", "u", "l", "t">>, <<"G", "e", "n", "e", "r", "a", "l">>}
RECURSIVE JoinWords(_)
JoinWords(ps) ==
  IF ps = <<>> THEN <<>>
  ELSE IF Len(ps) = 1 THEN ps[1]
  ELSE ps[1] \o <<" ">> \o JoinWords(Tail(ps))
DetectContexts ==
  {Undefined, <<>>} \cup
  {JoinWords(c) : c \in UNION {[1..m -> ContextPhrases] : m \in 1..MaxContextPhrases}}

\* detectClauseType(header, text, undefined, parentSection) is called and
\* returns.
Detect ==
  /\ detection.type = NotDetected
  /\ detection' = [detection EXCEPT !.type =
                     detectClauseType(detection.header, detection.text, Undefined,
                                      detection.parentSection)]
  /\ UNCHANGED <<text, pc, matches, i, levelStack, clauses, j, deduplicatedClauses, seen,
                 w, parent, result, calls, first, otherModules>>

DetectInit ==
  /\ text = <<>>
  /\ pc = "start"
  /\ matches = <<>>
  /\ i = 0
  /\ levelStack = <<>>
  /\ clauses = <<>>
  /\ j = 0
  /\ deduplicatedClauses = <<>>
  /\ seen = <<>>
  /\ w = 0
  /\ parent = Undefined
  /\ result = <<>>
  /\ calls = 0
  /\ first = NoCall
  /\ detection \in [header : DetectHeaders, text : DetectTexts,
                     parentSection : DetectContexts, type : {NotDetected}]
  /\ OtherModulesIdle

DetectNext == Detect

DetectSpec == DetectInit /\ [][DetectNext]_vars

\* ------------------------------------------- one decimal heading a call
\* The documents of one line, a decimal heading: the number, a word, and at
\* most MaxHeadingTail characters of HeadingChars.
HeadingChars == {".", "-", " ", "5", "x"}
HeadingTails == UNION {[1..m -> HeadingChars] : m \in 0..MaxHeadingTail}
HeadingDocuments == {<<NL>> \o <<"1", ".", " ", "H", "e", "a", "d", "i", "n", "g", " ">> \o tail \o <<NL>> : tail \in HeadingTails}

HeadingInit ==
  /\ text \in HeadingDocuments
  /\ pc = "start"
  /\ matches = <<>>
  /\ i = 0
  /\ levelStack = <<>>
  /\ clauses = <<>>
  /\ j = 0
  /\ deduplicatedClauses = <<>>
  /\ seen = <<>>
  /\ w = 0
  /\ parent = Undefined
  /\ result = <<>>
  /\ calls = 0
  /\ first = NoCall
  /\ detection = NoDetection
  /\ OtherModulesIdle

\* The steps of extractClausesRegex a document of one decimal heading takes.
HeadingNext ==
  \/ Collect
  \/ ReturnFullText
  \/ Sort
  \/ RetainClause
  \/ DiscardClause
  \/ DedupKeep
  \/ Return

HeadingSpec == HeadingInit /\ [][HeadingNext]_vars

\* ------------------------------------------------ labels that repeat
\* The documents of at most MaxRepeatLines of the lines RepeatLines: a
\* heading, a paragraph and a sub-heading can come back under the same label.
RepeatLines ==
  {<<"1", ".", " ", "D", "E", "F", "I", "N", "I", "T", "I", "O", "N", "S">>, <<"M", "a", "t", "e", "r", "i", "a", "l", " ", "a", "d", "v", "e", "r", "s", "e", " ", "e", "f", "f", "e", "c", "t", " ", "m", "e", "a", "n", "s", " ", "h", "a", "r", "m", ".">>,
   <<"1", ".", "1", " ", "F", "u", "r", "t", "h", "e", "r", " ", "p", "r", "o", "v", "i", "s", "i", "o", "n", "s", " ", "a", "p", "p", "l", "y", ".">>, <<"(", "i", ")", " ", "t", "h", "e", " ", "B", "o", "r", "r", "o", "w", "e", "r", " ", "p", "a", "y", "s">>, <<"(", "a", ")", " ", "i", "t", "e", "m">>}
RepeatLineChoices == UNION {[1..m -> RepeatLines] : m \in 0..MaxRepeatLines}
RepeatDocuments == {Document(c) : c \in RepeatLineChoices}

RepeatInit ==
  /\ text \in RepeatDocuments
  /\ pc = "start"
  /\ matches = <<>>
  /\ i = 0
  /\ levelStack = <<>>
  /\ clauses = <<>>
  /\ j = 0
  /\ deduplicatedClauses = <<>>
  /\ seen = <<>>
  /\ w = 0
  /\ parent = Undefined
  /\ result = <<>>
  /\ calls = 0
  /\ first = NoCall
  /\ detection = NoDetection
  /\ OtherModulesIdle

RepeatSpec == RepeatInit /\ [][Next]_vars

\* --------------------------------------------------------- analyzeIssues
\* extractClauses and detectClauseType are not called.
ParserIdle ==
  /\ text = <<>>
  /\ pc = "start"
  /\ matches = <<>>
  /\ i = 0
  /\ levelStack = <<>>
  /\ clauses = <<>>
  /\ j = 0
  /\ deduplicatedClauses = <<>>
  /\ seen = <<>>
  /\ w = 0
  /\ parent = Undefined
  /\ result = <<>>
  /\ calls = 0
  /\ first = NoCall
  /\ detection = NoDetection

\* interface Issue: the issues analyzeIssues is given.
Issue(id, type, severity, clauseId, clauseText, section) ==
  [id |-> id, type |-> type, severity |-> severity, clauseId |-> clauseId,
   clauseText |-> clauseText, section |-> section]
IssueCatalog ==
  {Issue("issue_a", "vague_mac", "HIGH", "clause_1", "Material adverse effect means harm.", "1"),
   Issue("issue_b", "circular_definition", "CRITICAL", "clause_2", "Further provisions apply.", "1.1")}
IssueLists == UNION {[1..n -> IssueCatalog] : n \in 0..MaxIssues}

\* canonicalCases: empty when the file could not be read, or the cases of the
\* file, here one case about vague MAC clauses.
CanonicalYear == 1941
CanonicalCase == [short_name |-> "Scammell v Ouston", year |-> CanonicalYear, issue_types |-> {"vague_mac"}]
CaseLists == {<<>>, <<CanonicalCase>>}

\* What the call of the model gives: it fails, or its answer holds no JSON
\* object with "analyses", or one that JSON.parse refuses, or an object whose
\* analyses is not an array, or an object with an array of analyses (none
\* when the key is missing). An analysis is null or an object: issueNumber is
\* 0 when missing; analysis is a short text, a long one or not a string, and
\* a legal basis is given with a long one; citations is missing or empty
\* ("none"), not an array, one citation of the canonical case, or one
\* citation of its year whose title is not a string.
NullAnalysis ==
  [kind |-> "null", issueNumber |-> 0, analysis |-> "short", legalBasis |-> "none",
   citations |-> "none"]
ObjectAnalyses ==
  {a \in [kind : {"object"}, issueNumber : 0..MaxIssues,
          analysis : {"short", "long", "notString"}, legalBasis : {"none", "given"},
          citations : {"none", "notArray", "canonical", "badTitle"}] :
     a.legalBasis = "given" <=> a.analysis = "long"}
AnalysisLists == UNION {[1..n -> ObjectAnalyses \cup {NullAnalysis}] : n \in 0..MaxAnalyses}
Answers ==
  {[kind |-> k, analyses |-> <<>>] : k \in {"noJson", "badJson", "analysesNotArray"}}
  \cup {[kind |-> "parsed", analyses |-> as] : as \in AnalysisLists}
Rejected == [kind |-> "rejected", analyses |-> <<>>]

\* interface Citation, and a title that is not a string.
NotAString == "<not a string>"
Citation(title, year, isCanonical) == [title |-> title, year |-> year, isCanonical |-> isCanonical]
\* interface GroundedIssue: { ...issue, analysis, legalBasis, citations }; the
\* texts are named by where they come from.
GroundedIssue(issue, analysis, legalBasis, citations) ==
  [id |-> issue.id, type |-> issue.type, severity |-> issue.severity,
   clauseId |-> issue.clauseId, clauseText |-> issue.clauseText, section |-> issue.section,
   analysis |-> analysis, legalBasis |-> legalBasis, citations |-> citations]

\* canonicalCases.find(c => c.issue_types.includes(issue.type)): its index, 0
\* when there is none.
CaseFor(cases, issue) ==
  LET S == {n \in 1..Len(cases) : issue.type \in cases[n].issue_types}
  IN IF S = {} THEN 0 ELSE Min(S)
findCanonicalCaseForIssue(cases, issue) ==
  IF CaseFor(cases, issue) = 0 THEN <<>>
  ELSE <<Citation(cases[CaseFor(cases, issue)].short_name, cases[CaseFor(cases, issue)].year, TRUE)>>
buildSingleFallbackAnalysis(cases, issue) ==
  GroundedIssue(issue, "fallback analysis", "fallback legal basis",
                findCanonicalCaseForIssue(cases, issue))
buildFallbackAnalysis(cases, is) ==
  [k \in 1..Len(is) |-> buildSingleFallbackAnalysis(cases, is[k])]

\* analyses.find(a => a.issueNumber === index + 1) || analyses[index], k being
\* index + 1: the position of the analysis, 0 when there is none.
MatchingAnalysis(as, k) ==
  LET S == {n \in 1..Len(as) : as[n].issueNumber = k}
  IN IF S # {} THEN Min(S) ELSE IF k <= Len(as) THEN k ELSE 0
\* The callback of find reads a.issueNumber of every analysis up to the one
\* it accepts: a null analysis before it is a TypeError.
FindThrows(as, k) ==
  LET S == {n \in 1..Len(as) : as[n].issueNumber = k}
      upTo == IF S # {} THEN Min(S) ELSE Len(as)
  IN \E n \in 1..upTo : as[n].kind = "null"
\* The body of issues.map in parseBatchAnalysisResponse throws for issue k:
\* find does, or analysis.split or citations.map is not a function.
MapThrows(as, k) ==
  \/ FindThrows(as, k)
  \/ /\ MatchingAnalysis(as, k) # 0
     /\ \/ as[MatchingAnalysis(as, k)].analysis = "notString"
        \/ as[MatchingAnalysis(as, k)].citations = "notArray"
\* The grounded issue built from the analysis a.
GroundedFrom(cases, issue, a) ==
  GroundedIssue(issue,
                IF a.analysis = "short" THEN "enhanced analysis" ELSE "model analysis",
                IF a.legalBasis = "given" THEN "model legal basis" ELSE "fallback legal basis",
                CASE a.citations = "canonical" -> <<Citation(CanonicalCase.short_name, CanonicalYear, FALSE)>>
                  [] a.citations = "badTitle" -> <<Citation(NotAString, CanonicalYear, FALSE)>>
                  [] OTHER -> findCanonicalCaseForIssue(cases, issue))
parseBatchAnalysisResponse(cases, ans, is) ==
  IF ans.kind \in {"noJson", "badJson", "analysesNotArray"} THEN buildFallbackAnalysis(cases, is)
  ELSE IF \E k \in 1..Len(is) : MapThrows(ans.analyses, k) THEN buildFallbackAnalysis(cases, is)
  ELSE [k \in 1..Len(is) |->
          IF MatchingAnalysis(ans.analyses, k) # 0
          THEN GroundedFrom(cases, is[k], ans.analyses[MatchingAnalysis(ans.analyses, k)])
          ELSE buildSingleFallbackAnalysis(cases, is[k])]

\* findCanonicalMatch(cite): the case of the citation's year whose name
\* matches its title; cite.title.toLowerCase() is a TypeError when the title
\* is not a string and a case of that year is met.
CanonicalMatchThrows(cases, cite) ==
  cite.year # 0 /\ cite.title = NotAString /\ \E n \in 1..Len(cases) : cases[n].year = cite.year
IsCanonicalMatch(cases, cite) ==
  cite.year # 0 /\ \E n \in 1..Len(cases) :
                     cases[n].year = cite.year /\ cases[n].short_name = cite.title
enhanceCitations(cases, cites) ==
  [n \in 1..Len(cites) |-> Citation(cites[n].title, cites[n].year, IsCanonicalMatch(cases, cites[n]))]
EnhanceThrows(cases, analyses) ==
  \E k \in 1..Len(analyses) : \E n \in 1..Len(analyses[k].citations) :
    CanonicalMatchThrows(cases, analyses[k].citations[n])

\* The list of the catch block of analyzeIssues.
Ungrounded(is) ==
  [k \in 1..Len(is) |->
     GroundedIssue(is[k], "Analysis unavailable due to API error", "Error during analysis", <<>>)]

\* A faulty variant of Settled: an error met after the answer was parsed is
\* not caught, and analyzeIssues rejects.
Settled_ParsedNotCaught(cases, ans, is) ==
  IF ans.kind = "rejected" THEN [pc |-> "done", value |-> Ungrounded(is)]
  ELSE LET analyses == parseBatchAnalysisResponse(cases, ans, is)
       IN IF EnhanceThrows(cases, analyses) THEN [pc |-> "rejected", value |-> <<>>]
          ELSE [pc |-> "done",
                value |-> [k \in 1..Len(is) |->
                             [analyses[k] EXCEPT !.citations = enhanceCitations(cases, @)]]]

\* The try block of analyzeIssues after the call of the model and its catch
\* block: where the function ends, and the list it returns.
Settled(cases, ans, is) ==
  IF ans.kind = "rejected" THEN [pc |-> "done", value |-> Ungrounded(is)]
  ELSE LET analyses == parseBatchAnalysisResponse(cases, ans, is)
       IN IF EnhanceThrows(cases, analyses) THEN [pc |-> "done", value |-> Ungrounded(is)]
          ELSE [pc |-> "done",
                value |-> [k \in 1..Len(is) |->
                             [analyses[k] EXCEPT !.citations = enhanceCitations(cases, @)]]]

\* if (issues.length === 0) return []
AnalyzeNothing ==
  /\ apc = "start"
  /\ Len(issues) = 0
  /\ grounded' = <<>>
  /\ apc' = "done"
  /\ UNCHANGED <<parserVars, detectorVars, grouping, issues, canonicalCases, modelCalls, answer>>

\* await searchLegalPrecedent(prompt): the one call of the model.
CallModel ==
  /\ apc = "start"
  /\ Len(issues) # 0
  /\ modelCalls' = modelCalls + 1
  /\ apc' = "awaiting"
  /\ UNCHANGED <<parserVars, detectorVars, grouping, issues, canonicalCases, answer, grounded>>

\* The call of the model fails.
ModelRejects ==
  /\ apc = "awaiting"
  /\ answer' = Rejected
  /\ grounded' = Settled(canonicalCases, answer', issues).value
  /\ apc' = Settled(canonicalCases, answer', issues).pc
  /\ UNCHANGED <<parserVars, detectorVars, grouping, issues, canonicalCases, modelCalls>>

\* The call of the model gives an answer.
ModelAnswers ==
  /\ apc = "awaiting"
  /\ answer' \in Answers
  /\ grounded' = Settled(canonicalCases, answer', issues).value
  /\ apc' = Settled(canonicalCases, answer', issues).pc
  /\ UNCHANGED <<parserVars, detectorVars, grouping, issues, canonicalCases, modelCalls>>

AnalyzeInit ==
  /\ ParserIdle
  /\ DetectorIdle
  /\ grouping = NoGrouping
  /\ issues \in IssueLists
  /\ canonicalCases \in CaseLists
  /\ apc = "start"
  /\ modelCalls = 0
  /\ answer = NoAnswer
  /\ grounded = <<>>

AnalyzeNext ==
  \/ AnalyzeNothing
  \/ CallModel
  \/ ModelRejects
  \/ ModelAnswers

AnalyzeSpec == AnalyzeInit /\ [][AnalyzeNext]_vars

\* ---------------------------------------------------------- detectIssues
\* A clause as detectIssues reads it.
DetectorClause(id, section, t) == [id |-> id, section |-> section, text |-> t]

DetectorCatalog ==
  { DetectorClause("clause_1", "1", <<"M", "a", "t", "e", "r", "i", "a", "l", " ", "A", "d", "v", "e", "r", "s", "e", " ", "E", "f", "f", "e", "c", "t", " ", "m", "e", "a", "n", "s", " ", "a", "n", "y", " ", "m", "a", "t", "e", "r", "i", "a", "l", " ", "e", "f", "f", "e", "c", "t", " ", "t", "h", "a", "t", " ", "i", "s", " ", "m", "a", "t", "e", "r", "i", "a", "l", "l", "y", " ", "a", "d", "v", "e", "r", "s", "e", ".">>),
    DetectorClause("clause_2", "2", <<"I", "n", "t", "e", "r", "e", "s", "t", " ", "i", "s", " ", "L", "I", "B", "O", "R", " ", "p", "l", "u", "s", " ", "a", " ", "m", "a", "r", "g", "i", "n", " ", "e", "x", "c", "e", "e", "d", "i", "n", "g", " ", "1", "%", ".">>),
    DetectorClause("clause_3", "3", <<"N", "o", "t", "i", "c", "e", "s", " ", "a", "r", "e", " ", "s", "e", "n", "t", " ", "b", "y", " ", "p", "o", "s", "t", ".">>) }

DetectorClauseLists == UNION {[1..n -> DetectorCatalog] : n \in 0..MaxDetectorClauses}

\* A field the model left out of an element of "issues".
NoType == "<no type>"
NoSeverity == "<no severity>"

\* detected.clauseNumber; 0 is also what a missing clauseNumber counts as
\* (detected.clauseNumber || 1).
ClauseNumbers == (0 - 1)..(MaxDetectorClauses + 1)

\* An element of "issues" that is null.
NullDetected == [null |-> TRUE, clauseNumber |-> 0, type |-> NoType, severity |-> NoSeverity]

ObjectDetected ==
  { [null |-> FALSE, clauseNumber |-> n, type |-> ty, severity |-> sv] :
      n \in ClauseNumbers, ty \in {"vague_mac", NoType}, sv \in {"LOW", NoSeverity} }

DetectedLists == UNION {[1..n -> ObjectDetected \cup {NullDetected}] : n \in 0..MaxDetected}

\* What the call of the model resolves to: no result object, an answer that
\* is not a string, an answer without a JSON object that has "issues", one
\* JSON.parse rejects, one whose "issues" cannot be iterated, one whose
\* "issues" is a list.
UnreadReplies ==
  { [kind |-> k, issues |-> <<>>] : k \in {"answerNotString", "noJson", "badJson", "issuesNotIterable"} }
Replies ==
  {[kind |-> "noResult", issues |-> <<>>]} \cup UnreadReplies \cup
  {[kind |-> "parsed", issues |-> l] : l \in DetectedLists}
CallRejected == [kind |-> "rejected", issues |-> <<>>]

determineSeverity(type) ==
  IF type \in {"circular_definition", "outdated_reference"} THEN "CRITICAL"
  ELSE IF type = "vague_mac" THEN "HIGH"
  ELSE IF type \in {"missing_cross_reference", "inconsistent_terminology"} THEN "MEDIUM"
  ELSE "MEDIUM"

\* An issue about a clause.  The id of the source is made of the time and a
\* random number; here it is the issue's place in the list.
IssueAbout(k, type, severity, clause) ==
  [id |-> k, type |-> type, severity |-> severity,
   clauseId |-> clause.id, clauseText |-> clause.text, section |-> clause.section]

\* clauseLower.split(/\s+/): where the words start, and the word there.
WordStarts(s) == {a \in 1..Len(s) : s[a] \notin WsChars /\ (a = 1 \/ s[a - 1] \in WsChars)}
WordAt(s, a) ==
  SubSeq(s, a, Min({b \in a..Len(s) : b = Len(s) \/ s[b + 1] \in WsChars}))

\* The patterns parseHeuristicBatchIssues looks for in one clause, in the
\* order it pushes them.
HeuristicFindings(clause) ==
  LET clauseLower == ToLowerCase(clause.text)
      circular ==
        /\ Includes(clauseLower, <<"m", "e", "a", "n", "s">>)
        /\ Includes(clauseLower, <<"m", "a", "t", "e", "r", "i", "a", "l", " ", "a", "d", "v", "e", "r", "s", "e">>)
        /\ Cardinality({a \in WordStarts(clauseLower) : Includes(WordAt(clauseLower, a), <<"m", "a", "t", "e", "r", "i", "a", "l">>)}) > 2
      vague ==
        /\ Includes(clauseLower, <<"m", "a", "t", "e", "r", "i", "a", "l", " ", "a", "d", "v", "e", "r", "s", "e">>)
        /\ ~Includes(clauseLower, <<"e", "x", "c", "e", "e", "d", "i", "n", "g">>)
        /\ ~Includes(clauseLower, <<"t", "h", "r", "e", "s", "h", "o", "l", "d">>)
      outdated ==
        \/ Includes(clauseLower, <<"l", "i", "b", "o", "r">>)
        \/ Includes(clauseLower, <<"t", "e", "l", "e", "x">>)
        \/ Includes(clauseLower, <<"f", "a", "c", "s", "i", "m", "i", "l", "e">>)
        \/ (Includes(clauseLower, <<"f", "a", "x">>) /\ ~Includes(clauseLower, <<"i", "f", "a", "x">>))
  IN (IF circular THEN <<[type |-> "circular_definition", severity |-> "CRITICAL"]>> ELSE <<>>)
     \o (IF vague THEN <<[type |-> "vague_mac", severity |-> "HIGH"]>> ELSE <<>>)
     \o (IF outdated THEN <<[type |-> "outdated_reference", severity |-> "CRITICAL"]>> ELSE <<>>)

RECURSIVE HeuristicFrom(_, _, _)
HeuristicFrom(cs, k, acc) ==
  IF k > Len(cs) THEN acc
  ELSE LET found == HeuristicFindings(cs[k])
       IN HeuristicFrom(cs, k + 1,
            acc \o [m \in 1..Len(found) |->
                      IssueAbout(Len(acc) + m, found[m].type, found[m].severity, cs[k])])

parseHeuristicBatchIssues(cs) == HeuristicFrom(cs, 1, <<>>)

\* (detected.clauseNumber || 1) - 1
ClauseIndex(detected) == (IF detected.clauseNumber = 0 THEN 1 ELSE detected.clauseNumber) - 1

ClauseFor_NoDefault(cs, detected) ==
  IF ClauseIndex(detected) \in 0..(Len(cs) - 1) THEN ClauseIndex(detected) + 1 ELSE 0

\* clauses[clauseIndex] || clauses[0], as a place in the list counted from 1;
\* 0 when both are undefined.
ClauseFor(cs, detected) ==
  IF ClauseIndex(detected) \in 0..(Len(cs) - 1) THEN ClauseIndex(detected) + 1
  ELSE IF Len(cs) > 0 THEN 1
  ELSE 0

\* The loop over detectedIssues throws: a property of null, or of an
\* undefined clause, is read.
LoopThrows(cs, l) == \E k \in 1..Len(l) : l[k].null \/ ClauseFor(cs, l[k]) = 0

parseBatchIssuesFromResponse(rp, cs) ==
  IF rp \in UnreadReplies THEN parseHeuristicBatchIssues(cs)
  ELSE IF LoopThrows(cs, rp.issues) THEN parseHeuristicBatchIssues(cs)
  ELSE [k \in 1..Len(rp.issues) |->
          IssueAbout(k, rp.issues[k].type,
                     IF rp.issues[k].severity # NoSeverity THEN rp.issues[k].severity
                     ELSE determineSeverity(rp.issues[k].type),
                     cs[ClauseFor(cs, rp.issues[k])])]

\* What detectIssues returns: the catch gives the empty list.
detectIssues(rp, cs) ==
  IF rp.kind \in {"rejected", "noResult"} THEN <<>>
  ELSE parseBatchIssuesFromResponse(rp, cs)

\* The prompt is built and the model is called.
DetectCall ==
  /\ dpc = "start"
  /\ dpc' = "awaiting"
  /\ UNCHANGED <<parserVars, analyzerVars, grouping, detectorClauses, reply, foundIssues>>

\* The call of the model fails.
DetectRejected ==
  /\ dpc = "awaiting"
  /\ reply' = CallRejected
  /\ foundIssues' = detectIssues(reply', detectorClauses)
  /\ dpc' = "returned"
  /\ UNCHANGED <<parserVars, analyzerVars, grouping, detectorClauses>>

\* The call of the model resolves.
DetectAnswered ==
  /\ dpc = "awaiting"
  /\ reply' \in Replies
  /\ foundIssues' = detectIssues(reply', detectorClauses)
  /\ dpc' = "returned"
  /\ UNCHANGED <<parserVars, analyzerVars, grouping, detectorClauses>>

DetectIssuesInit ==
  /\ ParserIdle
  /\ AnalyzerIdle
  /\ grouping = NoGrouping
  /\ detectorClauses \in DetectorClauseLists
  /\ dpc = "start"
  /\ reply = NoReply
  /\ foundIssues = <<>>

DetectIssuesNext ==
  \/ DetectCall
  \/ DetectRejected
  \/ DetectAnswered

DetectIssuesSpec == DetectIssuesInit /\ [][DetectIssuesNext]_vars

\* ---------------------------------------------------- groupClausesByType
GroupCatalog ==
  { Clause("clause_1", "1", <<"D", "e", "f", "i", "n", "i", "t", "i", "o", "n", "s">>, "definition", Undefined),
    Clause("clause_2", "1.1", <<"L", "e", "n", "d", "e", "r", " ", "m", "e", "a", "n", "s", " ", "a", " ", "b", "a", "n", "k", ".">>, "definition", "1"),
    Clause("clause_3", "2", <<"N", "o", " ", "m", "a", "t", "e", "r", "i", "a", "l", " ", "a", "d", "v", "e", "r", "s", "e", " ", "c", "h", "a", "n", "g", "e", ".">>, "MAC", Undefined),
    Clause("clause_4", "3", <<"L", "e", "v", "e", "r", "a", "g", "e", " ", "s", "h", "a", "l", "l", " ", "n", "o", "t", " ", "e", "x", "c", "e", "e", "d", " ", "3", ":", "1", ".">>, "financial_covenant", Undefined),
    Clause("clause_5", "4", <<"I", "t", " ", "i", "s", " ", "d", "u", "l", "y", " ", "i", "n", "c", "o", "r", "p", "o", "r", "a", "t", "e", "d", ".">>, "representation", Undefined),
    Clause("clause_6", "5", <<"N", "o", "n", "-", "p", "a", "y", "m", "e", "n", "t", ".">>, "default", Undefined),
    Clause("clause_7", "6", <<"N", "o", "t", "i", "c", "e", "s", ".">>, "general", Undefined) }

GroupLists == UNION {[1..n -> GroupCatalog] : n \in 0..MaxGroupClauses}

\* A faulty variant of GroupFrom: a clause is put in front of its group.
RECURSIVE GroupFrom_Unshift(_, _, _)
GroupFrom_Unshift(cs, k, grouped) ==
  IF k > Len(cs) THEN grouped
  ELSE GroupFrom_Unshift(cs, k + 1, [grouped EXCEPT ![cs[k].type] = <<cs[k]>> \o @])

\* for (const clause of clauses) grouped[clause.type].push(clause), from the
\* k-th clause on.
RECURSIVE GroupFrom(_, _, _)
GroupFrom(cs, k, grouped) ==
  IF k > Len(cs) THEN grouped
  ELSE GroupFrom(cs, k + 1, [grouped EXCEPT ![cs[k].type] = Append(@, cs[k])])

groupClausesByType(cs) == GroupFrom(cs, 1, NoGroups)

\* One call of groupClausesByType.
Group ==
  /\ ~grouping.called
  /\ grouping' = [clauses |-> grouping.clauses, called |-> TRUE,
                  grouped |-> groupClausesByType(grouping.clauses)]
  /\ UNCHANGED <<parserVars, analyzerVars, detectorVars>>

GroupInit ==
  /\ ParserIdle
  /\ AnalyzerIdle
  /\ DetectorIdle
  /\ grouping \in {[clauses |-> cs, called |-> FALSE, grouped |-> NoGroups] : cs \in GroupLists}

GroupNext == Group

GroupSpec == GroupInit /\ [][GroupNext]_vars

\* ================================================================ claims
\* The match a clause of the output was built from: clause_k comes from the
\* k-th match of the sorted list.
MatchOfClause(c) == matches[c.id[2]]
\* extractClauses has returned, and not by the fallback.
ReturnedFromMatches == pc = "done" /\ Len(matches) > 0
\* extractClauses has returned by the fallback.
ReturnedFullText == pc = "done" /\ Len(matches) = 0

\* C1: the clauses returned are in document order: of two output clauses,
\* the earlier one comes from a match whose start offset is at most that of
\* the later one's match, after deduplication too.
C1_DocumentOrder ==
  ReturnedFromMatches =>
    \A a \in 1..Len(result) : \A b \in 1..Len(result) :
      a < b => MatchOfClause(result[a]).startIndex <= MatchOfClause(result[b]).startIndex

\* C2: every output clause that has a parentSection is preceded in the output
\* by a clause whose section is that label and whose match is exactly one
\* level above.
C2_ParentPrecedes ==
  ReturnedFromMatches =>
    \A b \in 1..Len(result) :
      Truthy(result[b].parentSection) =>
        \E a \in 1..(b - 1) :
          /\ result[a].section = result[b].parentSection
          /\ MatchOfClause(result[a]).level = MatchOfClause(result[b]).level - 1

\* C3: every clause returned has a text of at most 2000 characters, the
\* "Full Text" clause included.
C3_TextAtMost2000 ==
  pc = "done" => \A n \in 1..Len(result) : Len(result[n].text) <= MaxClauseText

\* C4 as stated: for all inputs, the number of clauses returned is at most
\* the number of matches collected.
C4_CountAtMostMatches == pc = "done" => Len(result) <= Len(matches)
\* C4 as amended: the number of clauses returned is at most the number of
\* matches collected when there is a match; with no match one clause is
\* returned.
C4_CountAtMostMatchesOrOne ==
  pc = "done" =>
    IF Len(matches) = 0 THEN Len(result) = 1 ELSE Len(result) <= Len(matches)
\* A return where both the noise filter and the deduplication removed clauses.
C4_Witness ==
  ReturnedFromMatches /\ Len(clauses) < Len(matches) /\ Len(result) < Len(clauses)

\* s is t without its leading and trailing whitespace.
IsTrimOf(s, t) ==
  IF s = <<>> THEN \A n \in 1..Len(t) : t[n] \in WsChars
  ELSE /\ s[1] \notin WsChars
       /\ s[Len(s)] \notin WsChars
       /\ \E a \in 0..(Len(t) - Len(s)) :
            /\ \A n \in 1..a : t[n] \in WsChars
            /\ \A n \in (a + Len(s) + 1)..Len(t) : t[n] \in WsChars
            /\ SubSeq(t, a + 1, a + Len(s)) = s

\* C5: with no match, exactly one clause is returned: section "Full Text",
\* type general, no parentSection, the text being the whole document trimmed.
C5_FullTextFallback ==
  ReturnedFullText =>
    /\ Len(result) = 1
    /\ result[1].section = <<"F", "u", "l", "l", " ", "T", "e", "x", "t">>
    /\ result[1].type = "general"
    /\ result[1].parentSection = Undefined
    /\ IsTrimOf(result[1].text, text)
\* A fallback return for a text that trimming shortens.
C5_Witness == ReturnedFullText /\ Len(result) = 1 /\ Len(result[1].text) \in 1..(Len(text) - 1)

\* C6 as stated: with no match, no clause is returned when the whole text
\* has at most 10 characters, and the "Full Text" clause otherwise.
C6_ShortTextGivesNothing ==
  ReturnedFullText =>
    IF Len(text) <= NoiseLen THEN Len(result) = 0
    ELSE Len(result) = 1 /\ result[1].section = <<"F", "u", "l", "l", " ", "T", "e", "x", "t">>
\* C6 as amended: with no match the "Full Text" clause is returned whatever
\* the length of the text, also when it has at most 10 characters; an empty
\* list is returned only when there were matches.
C6_FullTextWhateverLength ==
  /\ ReturnedFullText => Len(result) = 1 /\ result[1].section = <<"F", "u", "l", "l", " ", "T", "e", "x", "t">>
  /\ (pc = "done" /\ Len(result) = 0) => Len(matches) > 0
\* A fallback return for a text of at most 10 characters.
C6_Witness == ReturnedFullText /\ Len(text) <= NoiseLen /\ Len(result) = 1

\* The composite key (section, text) of a clause, and the keys among the
\* clauses built.
PairOf(c) == <<c.section, c.text>>
BuiltPairs == {PairOf(clauses[n]) : n \in 1..Len(clauses)}
\* The positions in `clauses` where key k occurs, and the first of them.
Occurrences(k) == {n \in 1..Len(clauses) : PairOf(clauses[n]) = k}
FirstOccurrence(k) == Min(Occurrences(k))
\* The later occurrences of key k that are not self-referential.
LaterPlainOccurrences(k) ==
  {n \in Occurrences(k) : n > FirstOccurrence(k)
                          /\ clauses[n].parentSection # clauses[n].section}
\* The occurrence of key k the claim says is retained.
RetainedOccurrence(k) ==
  IF /\ clauses[FirstOccurrence(k)].parentSection = clauses[FirstOccurrence(k)].section
     /\ LaterPlainOccurrences(k) # {}
  THEN Min(LaterPlainOccurrences(k))
  ELSE FirstOccurrence(k)
\* The output position of key k: its rank among the keys by first occurrence.
OutputPosition(k) ==
  Cardinality({k2 \in BuiltPairs : FirstOccurrence(k2) <= FirstOccurrence(k)})
\* The deduplication loop has finished.
Deduplicated == pc \in {"depth", "done"} /\ Len(matches) > 0

\* C7: for every key (section, text) among the clauses built, exactly one
\* clause is retained, at the output position of the key's first occurrence:
\* the first occurrence, unless it is self-referential and a later occurrence
\* is not, and then the first later occurrence that is not.
C7_OneClausePerKey ==
  Deduplicated =>
    /\ Len(deduplicatedClauses) = Cardinality(BuiltPairs)
    /\ \A k \in BuiltPairs :
         deduplicatedClauses[OutputPosition(k)] = clauses[RetainedOccurrence(k)]
\* A return where a self-referential first occurrence was replaced by a later
\* one, and another key's duplicate was dropped or kept in place.
C7_Witness ==
  /\ pc = "done"
  /\ \E k \in BuiltPairs : RetainedOccurrence(k) # FirstOccurrence(k)
  /\ Len(result) >= 2

\* C8: no two clauses of the output have the same section and the same
\* text, and every (section, text) pair built is still in the output.
C8_KeysUniqueAndKept ==
  ReturnedFromMatches =>
    /\ \A a \in 1..Len(result) : \A b \in 1..Len(result) :
         a # b => PairOf(result[a]) # PairOf(result[b])
    /\ {PairOf(result[n]) : n \in 1..Len(result)} = BuiltPairs
\* A return where the deduplication dropped a clause and kept two others of
\* the same section with different texts.
C8_Witness ==
  /\ ReturnedFromMatches
  /\ Len(result) < Len(clauses)
  /\ \E a \in 1..Len(result) : \E b \in 1..Len(result) :
       a # b /\ result[a].section = result[b].section

\* The table-of-contents line, and the documents made of such lines only.
TocLine == <<"1", ".", " ", "D", "E", "F", "I", "N", "I", "T", "I", "O", "N", "S", ".", ".", ".", ".", ".", ".", ".", ".", ".", ".", " ", "5">>
TocDocuments == {Document([m \in 1..n |-> TocLine]) : n \in 1..MaxLines}

\* C9 as stated: for a document made of a table-of-contents line only, no
\* clause of the output carries that line.
C9_NoClauseCarriesTocLine ==
  (pc = "done" /\ text \in TocDocuments) =>
    \A n \in 1..Len(result) : ~Includes(result[n].text, TocLine)
\* C9 as amended: for a document made of a table-of-contents line only, the
\* decimal matcher pushes no match and no clause has a decimal section; the
\* output is the "Full Text" clause alone, and its text carries the line.
C9_TocLineGivesNoMatch ==
  /\ (pc # "start" /\ text \in TocDocuments) => matches = <<>>
  /\ (pc = "done" /\ text \in TocDocuments) =>
       /\ Len(result) = 1
       /\ result[1].section = <<"F", "u", "l", "l", " ", "T", "e", "x", "t">>
       /\ Includes(result[1].text, TocLine)
\* A return for a document made of a table-of-contents line only.
C9_Witness == pc = "done" /\ text \in TocDocuments /\ Len(result) = 1

\* The only matches are the decimal headings "1" and "1.1", in this order,
\* and both are retained.
OneThenOneOne ==
  /\ pc = "done"
  /\ Len(matches) = 2
  /\ matches[1].section = <<"1">> /\ matches[1].type = "decimal"
  /\ matches[2].section = <<"1", ".", "1">> /\ matches[2].type = "decimal"
  /\ Len(clauses) = 2
\* The lowercased header-plus-text of the n-th output clause.
OwnText(n) == ToLowerCase(MatchOfClause(result[n]).header \o <<" ">> \o result[n].text)
\* A text that matches a keyword rule of MAC, financial_covenant,
\* representation or default.
MatchesHigherPriority(c) ==
  \/ \E kw \in MacKeywords \cup FinancialKeywords \cup DefaultKeywords : Includes(c, kw)
  \/ Includes(c, <<"r", "e", "p", "r", "e", "s", "e", "n", "t">>) \/ Includes(c, <<"w", "a", "r", "r", "a", "n", "t", "y">>) \/ Includes(c, <<"w", "a", "r", "r", "a", "n", "t", "s", " ", "t", "h", "a", "t">>)
  \/ (Includes(c, <<"s", "t", "a", "t", "u", "s">>) /\ (Includes(c, <<"d", "u", "l", "y">>) \/ Includes(c, <<"v", "a", "l", "i", "d", "l", "y">>)))
\* A text that matches no keyword rule at all.
MatchesNoKeyword(c) ==
  /\ ~MatchesHigherPriority(c)
  /\ \A kw \in DefinitionKeywords : ~Includes(c, kw)
\* A parent context that triggers no inheritance rule.
TriggersNoInheritance(ctx) ==
  /\ ~(Includes(ctx, <<"e", "v", "e", "n", "t">>) /\ Includes(ctx, <<"d", "e", "f", "a", "u", "l", "t">>))
  /\ ~Includes(ctx, <<"f", "i", "n", "a", "n", "c", "i", "a", "l", " ", "c", "o", "v", "e", "n", "a", "n", "t">>)
  /\ ~(Includes(ctx, <<"c", "o", "v", "e", "n", "a", "n", "t">>) /\ ~Includes(ctx, <<"n", "e", "g", "a", "t", "i", "v", "e">>))
  /\ ~Includes(ctx, <<"r", "e", "p", "r", "e", "s", "e", "n", "t", "a", "t", "i", "o", "n">>)
  /\ ~Includes(ctx, <<"w", "a", "r", "r", "a", "n", "t">>)
  /\ ~Includes(ctx, <<"w", "a", "r", "r", "a", "n", "t", "i", "e", "s">>)
  /\ ~Includes(ctx, <<"m", "a", "t", "e", "r", "i", "a", "l", " ", "a", "d", "v", "e", "r", "s", "e">>)
\* The hierarchy the claim states, and the type of clause "1.1".
OneThenOneOneShape ==
  /\ Len(result) = 2
  /\ result[1].section = <<"1">> /\ result[1].parentSection = Undefined
  /\ result[2].section = <<"1", ".", "1">> /\ result[2].parentSection = <<"1">>
  /\ TriggersNoInheritance(ToLowerCase(result[1].text)) =>
       /\ result[2].type = OwnTextType(OwnText(2))
       /\ MatchesNoKeyword(OwnText(2)) => result[2].type = "general"

\* C10 as stated: with the headings "1" and "1.1" as only markers, the
\* output is clause "1" without parent, then clause "1.1" with parent "1";
\* "1" is a definition when its text contains "definitions" or "means";
\* "1.1" gets the type of its own text when the parent's context triggers no
\* inheritance rule.
C10_DefinitionThenChild ==
  OneThenOneOne =>
    /\ OneThenOneOneShape
    /\ (Includes(OwnText(1), <<"d", "e", "f", "i", "n", "i", "t", "i", "o", "n", "s">>) \/ Includes(OwnText(1), <<"m", "e", "a", "n", "s">>))
         => result[1].type = "definition"
\* C10 as amended: the same, "1" being a definition when its text contains
\* "definitions" or "means" and matches no keyword rule of MAC,
\* financial_covenant, representation or default.
C10_DefinitionUnlessHigherPriority ==
  OneThenOneOne =>
    /\ OneThenOneOneShape
    /\ ((Includes(OwnText(1), <<"d", "e", "f", "i", "n", "i", "t", "i", "o", "n", "s">>) \/ Includes(OwnText(1), <<"m", "e", "a", "n", "s">>))
          /\ ~MatchesHigherPriority(OwnText(1)))
         => result[1].type = "definition"
\* The example: "1" is a definition and "1.1", whose parent triggers no
\* rule, is general.
C10_Witness ==
  /\ OneThenOneOne
  /\ result[1].type = "definition"
  /\ TriggersNoInheritance(ToLowerCase(result[1].text))
  /\ result[2].type = "general"

\* The output holds a self-referential clause.
HasSelfReferential(cs) == \E n \in 1..Len(cs) : SelfReferential(cs[n])
\* The output holds two clauses of the same section.
HasRepeatedSection(cs) ==
  \E a \in 1..Len(cs) : \E b \in 1..Len(cs) : a # b /\ cs[a].section = cs[b].section

\* The order of the phases of a call.
Phase(p) ==
  CASE p = "start" -> 0 [] p = "collected" -> 1 [] p = "build" -> 2
    [] p = "dedup" -> 3 [] p = "depth" -> 4 [] p = "done" -> 5
\* The rank of a label in the depth walk: 0 for no label, 1 for a label no
\* output clause carries, else 1 + the position of the first output clause
\* that carries it.
LabelRank(label) ==
  IF ~Truthy(label) THEN 0
  ELSE IF ~HasSection(deduplicatedClauses, label) THEN 1
  ELSE 1 + Min({n \in 1..Len(deduplicatedClauses) : deduplicatedClauses[n].section = label})
\* What is left to do in the current phase.
Variant ==
  CASE pc = "build" -> Len(matches) - i
    [] pc = "dedup" -> Len(clauses) - j
    [] pc = "depth" -> (Len(deduplicatedClauses) - w) * (Len(deduplicatedClauses) + 2)
                       + LabelRank(parent)
    [] OTHER -> 0
\* A loop is entered only with something left to do, and a turn of the depth
\* walk replaces the label by one of lower rank.
LoopsAdvance ==
  /\ pc = "build" => i < Len(matches)
  /\ pc = "dedup" => j < Len(clauses)
  /\ (pc = "depth" /\ Truthy(parent)) =>
       LabelRank(NextParent(deduplicatedClauses, parent)) < LabelRank(parent)
\* A step goes to a later phase, or leaves less to do in the current one.
StepAdvances ==
  \/ Phase(pc') > Phase(pc)
  \/ pc' = pc /\ Variant' < Variant /\ Variant' >= 0

\* C11: extractClauses terminates on every input: the match loop, the
\* deduplication loop and the hierarchy-depth walk all finish. Every step of
\* a call goes to a later phase or decreases what is left to do in its loop,
\* and every turn of the depth walk follows a label of strictly lower rank,
\* so no loop can go on for ever.
C11_Terminates == []LoopsAdvance /\ [][StepAdvances]_vars
\* A return after the depth walk went through an output that holds a
\* self-referential clause and a repeated section label.
C11_Witness ==
  /\ pc = "done"
  /\ w > 0
  /\ HasSelfReferential(result)
  /\ HasRepeatedSection(result)

ClassifierArguments(n) ==
  <<MatchOfClause(clauses[n]).header,
    ClauseText(matches, clauses[n].id[2] - 1, text),
    ParentContext(SubSeq(clauses, 1, n - 1), clauses[n].parentSection)>>

SliceEnd(k) == IF k < Len(matches) THEN matches[k + 1].startIndex ELSE Len(text)

\* C14: the text from which the clause of match i is built is the document
\* slice from the start offset of match i up to, and excluding, the start
\* offset of match i + 1, and up to the end of the document for the last
\* match only, whatever the offsets are.
C14_SliceUpToNextMatch ==
  \A n \in 1..Len(clauses) :
    LET k == clauses[n].id[2]
    IN clauses[n].text =
         Substring(ClauseTextOf(matches[k].header,
                                Substring(text, matches[k].startIndex, SliceEnd(k))),
                   0, MaxClauseText)

\* The level of the n-th clause built: the level of its match.
LevelOfClause(n) == MatchOfClause(clauses[n]).level
\* The clauses of level l among the first n clauses built, and the section
\* of the most recent of them (absent when there is none).
RetainedAtLevel(l, n) == {m \in 1..n : LevelOfClause(m) = l}
LastRetainedSection(l, n) ==
  IF RetainedAtLevel(l, n) = {} THEN Undefined
  ELSE clauses[Max(RetainedAtLevel(l, n))].section
\* The levels in use.
Levels == {matches[n].level : n \in 1..Len(matches)} \cup DOMAIN levelStack

\* C15: a retained clause has no parentSection when its level is 0, and
\* otherwise the section of the most recently retained clause of level
\* exactly level - 1 (none when there is no such clause); and every slot of
\* the level stack holds the section of the most recently retained clause of
\* its level, so retaining a clause overwrites the slot of its own level only
\* and no slot is ever cleared.
C15_ParentFromLevelAbove ==
  /\ \A n \in 1..Len(clauses) :
       clauses[n].parentSection =
         IF LevelOfClause(n) = 0 THEN Undefined
         ELSE LastRetainedSection(LevelOfClause(n) - 1, n - 1)
  /\ \A l \in Levels : StackAt(levelStack, l) = LastRetainedSection(l, Len(clauses))
\* A clause is retained with the parent of a slot written before a clause
\* of a shallower level was retained: the slot was not cleared.
C15_Witness ==
  \E a \in 1..Len(clauses) : \E b \in 1..Len(clauses) : \E c \in 1..Len(clauses) :
    /\ a < b /\ b < c
    /\ LevelOfClause(b) < LevelOfClause(a)
    /\ LevelOfClause(c) = LevelOfClause(a) + 1
    /\ clauses[c].parentSection = clauses[a].section

\* What the build loop reads of the matches of a sorted list ms over the
\* text t: the level and the section of each, and whether its clause text is
\* long enough to be retained.
Entries(ms, t) ==
  [k \in 1..Len(ms) |->
     [level |-> ms[k].level, section |-> ms[k].section,
      retained |-> Len(ClauseText(ms, k - 1, t)) > NoiseLen]]
\* The mark of a discarded match in a list of parents.
Discarded == <<"discarded">>
\* The build loop over the entries es from the k-th on: the level stack it
\* ends with and the parentSection it gives to each entry.
RECURSIVE Replay(_, _, _)
Replay(es, k, acc) ==
  IF k > Len(es) THEN acc
  ELSE IF es[k].retained
  THEN LET stack == StackPut(acc.stack, es[k].level, es[k].section)
       IN Replay(es, k + 1,
                 [stack |-> stack,
                  parents |-> Append(acc.parents, ParentSectionOf(stack, es[k].level))])
  ELSE Replay(es, k + 1, [stack |-> acc.stack, parents |-> Append(acc.parents, Discarded)])
Build(es) == Replay(es, 1, [stack |-> <<>>, parents |-> <<>>])
\* A list without its n-th element.
Without(list, n) == SubSeq(list, 1, n - 1) \o SubSeq(list, n + 1, Len(list))
\* The matches of the sorted list discarded as noise.
NoiseMatches == {n \in 1..Len(matches) : ~Entries(matches, text)[n].retained}
\* The parentSection of the clause built from the m-th match.
ParentOfMatch(m) ==
  clauses[CHOOSE n \in 1..Len(clauses) : clauses[n].id[2] = m].parentSection
\* The build loop has gone through the sorted list.
Built == pc \in {"dedup", "depth", "done"} /\ Len(matches) > 0
\* The matches processed so far leave the stack and the clauses that the
\* retained ones alone give: a discarded match writes no slot and pushes no
\* clause.
DiscardedChangeNothing ==
  (pc \in {"build", "dedup", "depth", "done"} /\ Len(matches) > 0) =>
    LET es == SubSeq(Entries(matches, text), 1, i)
    IN /\ levelStack = Build(SelectSeq(es, LAMBDA e : e.retained)).stack
       /\ [n \in 1..Len(clauses) |-> clauses[n].id[2]]
            = SelectSeq([k \in 1..i |-> k], LAMBDA k : es[k].retained)

\* C16 as stated: a match discarded as noise changes nothing: it writes no
\* slot of the level stack and pushes no clause, and every later clause has
\* the parentSection it has when the build loop runs over the list without
\* that match.
C16_AsIfNotInTheList ==
  /\ DiscardedChangeNothing
  /\ Built =>
       \A n \in NoiseMatches : \A m \in (n + 1)..Len(matches) :
         Entries(matches, text)[m].retained =>
           ParentOfMatch(m) = Build(Entries(Without(matches, n), text)).parents[m - 1]
\* C16 as amended: a match discarded as noise writes no slot of the level
\* stack and pushes no clause, and every later clause has the parentSection
\* it has when the build loop skips that match, every other match keeping
\* its clause text.
C16_AsIfSkipped ==
  /\ DiscardedChangeNothing
  /\ Built =>
       \A n \in NoiseMatches : \A m \in (n + 1)..Len(matches) :
         Entries(matches, text)[m].retained =>
           ParentOfMatch(m) = Build(Without(Entries(matches, text), n)).parents[m - 1]
\* A match was discarded between two retained clauses of which the later
\* one has the earlier one as parent.
C16_Witness ==
  /\ Built
  /\ \E n \in NoiseMatches : \E a \in 1..(n - 1) : \E m \in (n + 1)..Len(matches) :
       /\ Entries(matches, text)[a].retained
       /\ Entries(matches, text)[m].retained
       /\ ParentOfMatch(m) = matches[a].section

\* The matches the build loop has gone through have a clause in the list
\* built exactly when their clause text, measured before truncation, is
\* longer than 10 characters.
RetainedIffLong ==
  (pc \in {"build", "dedup", "depth", "done"} /\ Len(matches) > 0) =>
    \A k \in 1..i :
      (\E n \in 1..Len(clauses) : clauses[n].id[2] = k)
        <=> Len(ClauseText(matches, k - 1, text)) > NoiseLen

\* C17: every clause of the output that comes from a pattern match has a
\* text longer than 10 characters, and a match is retained if and only if
\* its clause text, header included and measured before truncation, is
\* longer than 10 characters.
C17_RetainedIffOverTen ==
  /\ ReturnedFromMatches => \A n \in 1..Len(result) : Len(result[n].text) > NoiseLen
  /\ RetainedIffLong
\* A return where a match whose clause text has exactly 10 characters was
\* discarded and a clause of 11 characters was kept.
C17_Witness ==
  /\ ReturnedFromMatches
  /\ \E k \in 1..Len(matches) :
       /\ Len(ClauseText(matches, k - 1, text)) = NoiseLen
       /\ \A n \in 1..Len(clauses) : clauses[n].id[2] # k
  /\ \E n \in 1..Len(result) : Len(result[n].text) = NoiseLen + 1

\* The rank in the matcher catalog of the class that pushed the match m:
\* top-level unit, decimal, letter paragraph, lowercase Roman, parenthesized
\* number, uppercase Roman, capital letter.
ClassRank(m) ==
  CASE m.level = TopLevelLevel -> 1
    [] m.type = "roman" -> 4
    [] m.type = "letter" /\ m.section[2] \in LowerChars -> 3
    [] m.type = "letter" -> 5
    [] m.section[1] \in DigitChars -> 2
    [] m.section[1] = "(" -> 6
    [] OTHER -> 7
\* The match list has been sorted.
Sorted == pc \in {"build", "dedup", "depth", "done"} /\ Len(matches) > 0

\* C18: matches are processed in ascending start offset, those of one start
\* offset in the order of the matcher catalog: a label matched at one offset
\* by the letter-paragraph class (level 3) and by the lowercase-Roman class
\* (level 4) is processed at level 3 first; and the clauses are built in the
\* order of the sorted list.
C18_OffsetThenCatalogOrder ==
  Sorted =>
    /\ \A a \in 1..Len(matches) : \A b \in 1..Len(matches) :
         a < b =>
           /\ matches[a].startIndex <= matches[b].startIndex
           /\ matches[a].startIndex = matches[b].startIndex =>
                /\ ClassRank(matches[a]) < ClassRank(matches[b])
                /\ (matches[a].section = matches[b].section
                    /\ {matches[a].level, matches[b].level} = {LetterLevel, RomanLevel})
                     => matches[a].level = LetterLevel
    /\ \A n \in 1..Len(clauses) : \A m \in 1..Len(clauses) :
         n < m => clauses[n].id[2] < clauses[m].id[2]
\* The build loop went through a label matched at one offset at level 3 and
\* at level 4, and through a match of an earlier class at a later offset.
C18_Witness ==
  /\ Sorted
  /\ \E a \in 1..Len(matches) : \E c \in 1..Len(matches) :
       /\ a + 1 < c /\ c <= i
       /\ matches[a].startIndex = matches[a + 1].startIndex
       /\ matches[a].section = matches[a + 1].section
       /\ matches[a].level = LetterLevel /\ matches[a + 1].level = RomanLevel
       /\ ClassRank(matches[c]) < ClassRank(matches[a])

\* detectClauseType has returned, and what it was given.
Detected == detection.type # NotDetected
HasContext == Truthy(detection.parentSection)
Context == ToLowerCase(detection.parentSection)
Combined == ToLowerCase(detection.header \o <<" ">> \o detection.text)
\* The conditions of the four inheritance rules, on the context.
EventOfDefaultContext == Includes(Context, <<"e", "v", "e", "n", "t">>) /\ Includes(Context, <<"d", "e", "f", "a", "u", "l", "t">>)
CovenantContext ==
  \/ Includes(Context, <<"f", "i", "n", "a", "n", "c", "i", "a", "l", " ", "c", "o", "v", "e", "n", "a", "n", "t">>)
  \/ (Includes(Context, <<"c", "o", "v", "e", "n", "a", "n", "t">>) /\ ~Includes(Context, <<"n", "e", "g", "a", "t", "i", "v", "e">>))
RepresentationContext ==
  \/ Includes(Context, <<"r", "e", "p", "r", "e", "s", "e", "n", "t", "a", "t", "i", "o", "n">>)
  \/ Includes(Context, <<"w", "a", "r", "r", "a", "n", "t">>)
  \/ Includes(Context, <<"w", "a", "r", "r", "a", "n", "t", "i", "e", "s">>)
MacContext == Includes(Context, <<"m", "a", "t", "e", "r", "i", "a", "l", " ", "a", "d", "v", "e", "r", "s", "e">>)
NoRuleInherits ==
  ~HasContext \/
    (~EventOfDefaultContext /\ ~CovenantContext /\ ~RepresentationContext /\ ~MacContext)

\* C19: with a parent context, the inheritance rules come before the own
\* text, in the order default, financial_covenant, representation, MAC, and
\* the first that holds gives the type whatever the header and the text say;
\* a context with "covenant" and "negative" and without "financial covenant"
\* is not a covenant context: the type comes from the rules after it.
C19_InheritanceInOrder ==
  (Detected /\ HasContext) =>
    /\ EventOfDefaultContext => detection.type = "default"
    /\ (~EventOfDefaultContext /\ CovenantContext) => detection.type = "financial_covenant"
    /\ (~EventOfDefaultContext /\ ~CovenantContext /\ RepresentationContext)
         => detection.type = "representation"
    /\ (~EventOfDefaultContext /\ ~CovenantContext /\ ~RepresentationContext /\ MacContext)
         => detection.type = "MAC"
    /\ ( /\ Includes(Context, <<"c", "o", "v", "e", "n", "a", "n", "t">>) /\ Includes(Context, <<"n", "e", "g", "a", "t", "i", "v", "e">>)
         /\ ~Includes(Context, <<"f", "i", "n", "a", "n", "c", "i", "a", "l", " ", "c", "o", "v", "e", "n", "a", "n", "t">>)
         /\ ~EventOfDefaultContext )
         => detection.type = IF RepresentationContext THEN "representation"
                             ELSE IF MacContext THEN "MAC"
                             ELSE OwnTextType(Combined)
\* A clause whose own text has the wording of a MAC clause was called under
\* a context of events of default and of covenants, and one under a context
\* of negative covenants only.
C19_Witness ==
  /\ Detected /\ HasContext
  /\ OwnTextType(Combined) = "MAC"
  /\ \/ detection.parentSection = <<"F", "i", "n", "a", "n", "c", "i", "a", "l", " ", "C", "o", "v", "e", "n", "a", "n", "t", "s", " ", "E", "v", "e", "n", "t", "s", " ", "o", "f", " ", "D", "e", "f", "a", "u", "l", "t">>
     \/ detection.parentSection = <<"N", "e", "g", "a", "t", "i", "v", "e", " ", "C", "o", "v", "e", "n", "a", "n", "t", "s">>
  /\ detection.type \in {"default", "MAC"}

\* The categories of the own-text rules, by priority, and whether the
\* wording of a category is in the lowercased header-plus-text.
OwnTextPriority == <<"MAC", "financial_covenant", "representation", "default", "definition">>
Wording(category) ==
  CASE category = "MAC" -> \E kw \in MacKeywords : Includes(Combined, kw)
    [] category = "financial_covenant" -> \E kw \in FinancialKeywords : Includes(Combined, kw)
    [] category = "representation" -> RepresentationWording(Combined)
    [] category = "default" ->
         (\E kw \in DefaultKeywords : Includes(Combined, kw)) \/ MisrepresentationDefault(Combined)
    [] category = "definition" -> \E kw \in DefinitionKeywords : Includes(Combined, kw)
WordingOf == {k \in 1..Len(OwnTextPriority) : Wording(OwnTextPriority[k])}

\* C20: when no inheritance rule applies, the type is the category of
\* highest priority (MAC, financial_covenant, representation, default,
\* definition) whose wording is in the lowercased header-plus-text, and
\* general when the wording of no category is.
C20_OwnTextByPriority ==
  (Detected /\ NoRuleInherits) =>
    detection.type =
      IF WordingOf = {} THEN "general"
      ELSE OwnTextPriority[CHOOSE k \in WordingOf : \A l \in WordingOf : k <= l]
\* A header-plus-text with the wording of a default and of a definition, and
\* of no category before them, was classified without inheritance.
C20_Witness ==
  /\ Detected /\ NoRuleInherits
  /\ WordingOf = {4, 5}
  /\ detection.type = "default"

\* The clause found as the parent of the n-th clause built, and the header
\* of its match; a clause has a parent clause when the lookup finds one.
HasParentClause(n) ==
  /\ Truthy(clauses[n].parentSection)
  /\ HasSection(SubSeq(clauses, 1, n - 1), clauses[n].parentSection)
ParentClause(n) == FindBySection(SubSeq(clauses, 1, n - 1), clauses[n].parentSection)
ParentHeader(n) == MatchOfClause(ParentClause(n)).header

\* C21: the context the classifier is handed for a retained clause with a
\* parent is the parent's header only: the type of the clause is the one the
\* classifier gives on that header, whatever the body of the parent is.
C21_ParentHeaderOnly ==
  \A n \in 1..Len(clauses) :
    HasParentClause(n) =>
      clauses[n].type =
        detectClauseType(MatchOfClause(clauses[n]).header,
                         ClauseText(matches, clauses[n].id[2] - 1, text),
                         clauses[n].section, ParentHeader(n))

\* The candidates of the decimal matcher in the text, before the filter, and
\* the header of a candidate.
DecimalCandidates == MatchAll([p \in Offsets(text) |-> decimalPattern(text, p)], text)
CandidateHeader(c) == Trim(c.g2)
\* The candidate c is in the match list.
InMatchList(c) ==
  \E n \in 1..Len(matches) :
    /\ matches[n].type = "decimal"
    /\ matches[n].startIndex = c.index
    /\ matches[n].section = c.g1
\* The header h has k characters of the set S in a row.
HasRun(h, S, k) == \E a \in 1..(Len(h) - k + 1) : \A m \in a..(a + k - 1) : h[m] \in S
\* The header h ends in two dots, or more, and a number after them.
EndsInDotsAndNumber(h) ==
  \E a \in 3..Len(h) : \E b \in a..Len(h) :
    /\ h[a - 2] = "." /\ h[a - 1] = "."
    /\ \A m \in a..(b - 1) : h[m] \in WsChars
    /\ \A m \in b..Len(h) : h[m] \in DigitChars

\* C22 as stated: a candidate of the decimal matcher whose header has 3
\* leader characters in a row, each a dot or a dash, or ends in 2 dots or
\* more and a number, is not in the match list.
C22_ThreeLeadersDiscarded ==
  pc # "start" =>
    \A n \in 1..Len(DecimalCandidates) :
      LET c == DecimalCandidates[n]
      IN (HasRun(CandidateHeader(c), LeaderChars, 3) \/ EndsInDotsAndNumber(CandidateHeader(c)))
           => ~InMatchList(c)
\* C22 as amended: a candidate of the decimal matcher is left out of the
\* match list exactly when its header has 3 dots in a row, or 5 characters in
\* a row each a dot or a dash, or ends in 2 dots or more and a number.
C22_DotsOrFiveLeadersDiscarded ==
  pc # "start" =>
    \A n \in 1..Len(DecimalCandidates) :
      LET c == DecimalCandidates[n]
      IN ~InMatchList(c) <=>
           \/ HasRun(CandidateHeader(c), {"."}, 3)
           \/ HasRun(CandidateHeader(c), LeaderChars, 5)
           \/ EndsInDotsAndNumber(CandidateHeader(c))
\* A heading with 5 dots and dashes in a row, no 3 of them dots in a row, was
\* left out, and the call returned the whole text.
C22_Witness ==
  /\ pc = "done"
  /\ Len(DecimalCandidates) = 1
  /\ HasRun(CandidateHeader(DecimalCandidates[1]), LeaderChars, 5)
  /\ ~HasRun(CandidateHeader(DecimalCandidates[1]), {"."}, 3)
  /\ ~EndsInDotsAndNumber(CandidateHeader(DecimalCandidates[1]))
  /\ matches = <<>>
  /\ Len(result) = 1

\* C23: no clause of the output is self-referential: the parentSection of
\* every clause returned is absent or differs from the clause's section,
\* also for a label matched both as a letter paragraph and as a lowercase
\* Roman numeral.
C23_NoSelfReferentialOutput ==
  pc = "done" => \A n \in 1..Len(result) : result[n].parentSection # result[n].section

\* The nearest clause built before the n-th one whose section is the n-th
\* clause's parentSection.
NearestParentClause(n) ==
  clauses[Max({m \in 1..(n - 1) : clauses[m].section = clauses[n].parentSection})]
\* The parent context the classifier was handed for the n-th clause built.
ContextUsed(n) == ParentContext(SubSeq(clauses, 1, n - 1), clauses[n].parentSection)

\* C24: the parent context used to classify a clause is the text of the
\* nearest preceding retained clause whose section is the clause's
\* parentSection, also when an earlier clause carries the same label, and
\* the type of the clause is the one the classifier gives on that context.
C24_NearestParentText ==
  \A n \in 1..Len(clauses) :
    HasParentClause(n) =>
      /\ ContextUsed(n) = NearestParentClause(n).text
      /\ clauses[n].type =
           detectClauseType(MatchOfClause(clauses[n]).header,
                            ClauseText(matches, clauses[n].id[2] - 1, text),
                            clauses[n].section, NearestParentClause(n).text)

\* The clause returned for a text where nothing matched.
IsFullText(c) == c.section = <<"F", "u", "l", "l", " ", "T", "e", "x", "t">>

\* C25: the list returned is empty only when a marker matched and every
\* match was discarded as noise, and it is empty then; when a match was
\* retained the list is not empty and holds no "Full Text" clause; when
\* nothing matched the list is the "Full Text" clause alone.
C25_EmptyOnlyWhenAllNoise ==
  pc = "done" =>
    /\ result = <<>> <=> (Len(matches) > 0 /\ clauses = <<>>)
    /\ Len(clauses) > 0 =>
         (result # <<>> /\ \A n \in 1..Len(result) : ~IsFullText(result[n]))
    /\ Len(matches) = 0 => result = <<FullTextClause(text)>>
\* A call returned the empty list: markers matched and no clause was built.
C25_Witness ==
  /\ pc = "done"
  /\ result = <<>>
  /\ Len(matches) > 1
  /\ \A n \in 1..Len(matches) : ~IsSubstantial(ClauseText(matches, n - 1, text))

\* C26: the ids of the clauses returned are pairwise distinct; the id of a
\* clause built from a match is clause_k, k being the 1-based index in the
\* sorted match list of the match the clause was built from: the clause has
\* the section of that match and the text built from it; and the list kept
\* by the deduplication never holds two clauses of one id, replacement
\* included.
C26_IdsDistinctAndOfMatch ==
  /\ \A a \in 1..Len(deduplicatedClauses) : \A b \in 1..Len(deduplicatedClauses) :
       a # b => deduplicatedClauses[a].id # deduplicatedClauses[b].id
  /\ pc = "done" =>
       /\ \A a \in 1..Len(result) : \A b \in 1..Len(result) :
            a # b => result[a].id # result[b].id
       /\ Len(matches) > 0 =>
            \A n \in 1..Len(result) :
              LET k == result[n].id[2]
              IN /\ result[n].id = <<"clause_", k>>
                 /\ k \in 1..Len(matches)
                 /\ result[n].section = matches[k].section
                 /\ result[n].text = Substring(ClauseText(matches, k - 1, text), 0, MaxClauseText)
\* A call returned after a duplicate was dropped and a kept clause was
\* replaced by a later one: the ids returned are not in ascending order.
C26_Witness ==
  /\ pc = "done"
  /\ Len(result) + 1 < Len(clauses)
  /\ \E n \in 1..(Len(result) - 1) : result[n].id[2] > result[n + 1].id[2]

\* The k-th grounded issue carries the fields of the k-th issue.
CarriesIssue(k) ==
  /\ grounded[k].id = issues[k].id
  /\ grounded[k].type = issues[k].type
  /\ grounded[k].severity = issues[k].severity
  /\ grounded[k].clauseId = issues[k].clauseId
  /\ grounded[k].section = issues[k].section

\* C27: analyzeIssues never rejects and returns one grounded issue per issue,
\* in the order of the issues, the k-th carrying the id, type, severity,
\* clauseId and section of the k-th issue, whatever the call of the model
\* gives; when the call fails every grounded issue has the analysis
\* 'Analysis unavailable due to API error' and no citation; for no issue the
\* list is empty and the model is not called.
C27_OneGroundedIssuePerIssue ==
  /\ apc # "rejected"
  /\ modelCalls <= 1
  /\ (modelCalls = 1) => Len(issues) > 0
  /\ apc = "done" =>
       /\ Len(grounded) = Len(issues)
       /\ \A k \in 1..Len(issues) : CarriesIssue(k)
       /\ answer = Rejected =>
            \A k \in 1..Len(issues) :
              /\ grounded[k].analysis = "Analysis unavailable due to API error"
              /\ grounded[k].citations = <<>>
       /\ Len(issues) = 0 => (grounded = <<>> /\ modelCalls = 0)
\* analyzeIssues returned for two different issues after an answer that was
\* parsed and whose citation could not be matched with the canonical cases:
\* the error was caught.
C27_Witness ==
  /\ apc = "done"
  /\ Len(issues) = 2 /\ issues[1] # issues[2]
  /\ answer.kind = "parsed"
  /\ EnhanceThrows(canonicalCases, parseBatchAnalysisResponse(canonicalCases, answer, issues))
  /\ grounded[2].analysis = "Analysis unavailable due to API error"

\* An issue carries the id, the section and the text of a clause.
RefersTo(issue, clause) ==
  /\ issue.clauseId = clause.id
  /\ issue.section = clause.section
  /\ issue.clauseText = clause.text

\* The answer was read as a list of issues and every one of them found a
\* clause.
ReadAsList ==
  /\ reply.kind = "parsed"
  /\ detectorClauses # <<>>
  /\ \A k \in 1..Len(reply.issues) : ~reply.issues[k].null

\* The clause the k-th issue of the answer names, the first one when it
\* names none.
NamedClause(k) ==
  IF reply.issues[k].clauseNumber \in 1..Len(detectorClauses)
  THEN detectorClauses[reply.issues[k].clauseNumber]
  ELSE detectorClauses[1]

\* C28: every issue detectIssues returns carries the id, section and text
\* of one clause of the list it was given, whatever the model answered and
\* for any clause list, the empty one included; an issue of the model whose
\* clauseNumber is missing or names no clause is put on the first clause;
\* when the call of the model fails the list returned is empty, and
\* detectIssues never rejects.
C28_IssuesReferToInputClauses ==
  /\ dpc \in {"idle", "start", "awaiting", "returned"}
  /\ dpc = "returned" =>
       /\ \A k \in 1..Len(foundIssues) :
            \E n \in 1..Len(detectorClauses) : RefersTo(foundIssues[k], detectorClauses[n])
       /\ reply.kind = "rejected" => foundIssues = <<>>
       /\ ReadAsList =>
            /\ Len(foundIssues) = Len(reply.issues)
            /\ \A k \in 1..Len(foundIssues) : RefersTo(foundIssues[k], NamedClause(k))

\* A list of two clauses, the second of them named by no issue, and an
\* issue whose clauseNumber is past the end: it is on the first clause.
C28_Witness ==
  /\ dpc = "returned"
  /\ ReadAsList
  /\ Len(detectorClauses) = 2
  /\ detectorClauses[1] # detectorClauses[2]
  /\ \E k \in 1..Len(foundIssues) :
       /\ reply.issues[k].clauseNumber > Len(detectorClauses)
       /\ RefersTo(foundIssues[k], detectorClauses[1])

\* The clauses of the given type, in the order of the list.
OfType(cs, t) == SelectSeq(cs, LAMBDA c : c.type = t)

\* C29: groupClausesByType partitions its input: the result has exactly the
\* six keys definition, MAC, financial_covenant, representation, default and
\* general; the group of a type holds the input clauses of that type and no
\* other, each once, in the order of the input; the sizes of the groups sum
\* to the length of the input.
C29_GroupsPartitionInput ==
  grouping.called =>
    LET grouped == grouping.grouped
    IN /\ DOMAIN grouped = {"definition", "MAC", "financial_covenant", "representation", "default", "general"}
       /\ \A t \in DOMAIN grouped : grouped[t] = OfType(grouping.clauses, t)
       /\ Len(grouped.definition) + Len(grouped.MAC) + Len(grouped.financial_covenant)
            + Len(grouped.representation) + Len(grouped.default) + Len(grouped.general)
            = Len(grouping.clauses)

\* Clauses of two types are grouped, two different ones of them in the same
\* group.
C29_Witness ==
  /\ grouping.called
  /\ Len(grouping.grouped.definition) = 2
  /\ grouping.grouped.definition[1] # grouping.grouped.definition[2]
  /\ Len(grouping.grouped.default) = 1
  /\ grouping.clauses[2].type = "default"

\* C30: the alternative ("misrepresentation" and "default") of the default
\* rule never decides a type: a header-plus-text with "misrepresentation"
\* has "represent", so when no inheritance rule applies its type is MAC,
\* financial_covenant or representation, and never default, definition or
\* general.
C30_MisrepresentationNeverDecides ==
  (Detected /\ NoRuleInherits /\ Includes(Combined, <<"m", "i", "s", "r", "e", "p", "r", "e", "s", "e", "n", "t", "a", "t", "i", "o", "n">>)) =>
    /\ Includes(Combined, <<"r", "e", "p", "r", "e", "s", "e", "n", "t">>)
    /\ RepresentationWording(Combined)
    /\ detection.type \in {"MAC", "financial_covenant", "representation"}
\* A header-plus-text with "misrepresentation" and "default" and no other
\* wording of a default was classified without inheritance: it is a
\* representation.
C30_Witness ==
  /\ Detected /\ NoRuleInherits
  /\ MisrepresentationDefault(Combined)
  /\ ~\E kw \in DefaultKeywords : Includes(Combined, kw)
  /\ detection.type = "representation"
====
